---- MODULE Spec2Model ----
(***************************************************************************)
(* Model of AVMAggregator.analyzeProperty                                  *)
(* (src/experiments/2025/vsc-ab/lib/avm-aggregator.ts): the fan-out of one *)
(* retry-wrapped scraping task per provider through a p-limit limiter, the *)
(* Promise.allSettled join, property identification and the read of the    *)
(* stored estimates.                                                       *)
(***************************************************************************)
EXTENDS Integers, Sequences, FiniteSets, TLC

(***************************************************************************)
(* Program constants.                                                      *)
(***************************************************************************)
\* avm-aggregator.ts:46-52, the static provider list, in submission order.
SCRAPERS == <<"homes_com", "zillow", "movoto", "redfin", "realtor_com">>

\* avm-aggregator.ts:54
CONCURRENT_SCRAPERS == 2

\* avm-aggregator.ts:55
RETRY_ATTEMPTS == 2

\* avm-aggregator.ts:89, the base of the progressive delay (ms).
BASE_DELAY == 2000

\* avm-aggregator.ts:121, the message of the run-level error.
NoSourceError == <<"Failed to identify property from any scraping source">>

Names == {SCRAPERS[i] : i \in 1..Len(SCRAPERS)}

(***************************************************************************)
(* ScrapingResult values (scraping-utils ScrapingResult: success, data,    *)
(* error, duration).  A scraper's payload names the provider and the call  *)
(* it came from, so that results of different calls are different values.  *)
(***************************************************************************)
\* data: null
NoData == [property |-> FALSE, provider |-> "null", attempt |-> 0]

\* error: undefined
NoError == <<>>

\* `let result` before its first assignment (line 76).
Unassigned == [success |-> FALSE, data |-> NoData, error |-> NoError, duration |-> -1]

\* What a scrapeAVM call of provider p, attempt n, can return (line 82):
\* a success whose payload has a property, a success whose payload has no
\* property (null data takes the same branch at line 113), and an explicit
\* failure.
Returned(p, n) ==
  { [success |-> TRUE,  data |-> [property |-> TRUE,  provider |-> p, attempt |-> n],
     error |-> NoError, duration |-> 1],
    [success |-> TRUE,  data |-> [property |-> FALSE, provider |-> p, attempt |-> n],
     error |-> NoError, duration |-> 1],
    [success |-> FALSE, data |-> NoData, error |-> <<p, n, "failed">>, duration |-> 1] }

\* The error a scrapeAVM call of provider p, attempt n, can throw.
Thrown(p, n) == { <<p, n, "threw">> }

VARIABLES
  pc,               \* position of analyzeProperty
  queue,            \* p-limit: tasks submitted and not yet admitted
  activeCount,      \* p-limit: tasks admitted and not yet released
  pendingChecks,    \* p-limit: deferred admission checks not yet run
  status,           \* per provider task: queued/calling/delaying/settled/released
  attempts,         \* per task: `attempts` (line 77)
  result,           \* per task: `result` (line 76)
  delayMs,          \* per task: the delay being awaited (line 89)
  scrapingResults,  \* the shared outcome map (line 64)
  propertyId,       \* line 111
  thrown,           \* the error analyzeProperty rejected with, or NoError
  dbReads,          \* number of findMany reads issued (line 151)
  metricsRuns,      \* number of calculateAnalysisMetrics runs (line 128)
  calls,            \* history, per provider: number of scrapeAVM calls made
  failedCalls,      \* history, per provider: calls that threw or returned success:false
  okCalls,          \* history, per provider: calls that returned success:true
  lastFault,        \* history, per provider: the error its latest call threw, if it threw
  writes,           \* history, per task: the keys of each of its map writes
  startOrder,       \* history: providers in the order their task started
  properties,       \* storage: the stored properties (id and address fields)
  avmRows,          \* storage: the stored estimates, by <<propertyId, provider>>
  now,              \* the clock read by `new Date()`
  avmEstimates,     \* the estimates handed to calculateAnalysisMetrics
  analysis,         \* the value calculateAnalysisMetrics returned
  returned,         \* the value the last call of the public interface returned
  readFailed,       \* history: the last read of the storage threw
  dbWrites,         \* history: number of writes made to the storage
  lastSaved,        \* history, per stored key: the AVMData of its latest completed save
  request,          \* the address, city, state, zipCode of the latest call
  rlNow,            \* ScrapingUtils: Date.now(), in ms
  rateLimitMap,     \* ScrapingUtils.rateLimitMap, by <<provider, windowStart>>
  rlWaiting,        \* enforceRateLimit calls suspended in delay(waitTime), with their locals
  rlPassed,         \* history: calls let through, by <<provider, window in which they returned>>
  fwMaxRetries,     \* fetchWithRetry: maxRetries
  fwAttempt,        \* fetchWithRetry: attempt
  fwPc,             \* fetchWithRetry: position
  fwLog,            \* history: the requests and waits of fetchWithRetry, in order
  currentStateIndex,\* ProxyManager.currentStateIndex
  proxyState,       \* the state in the username of ProxyManager.proxyAgent
  loggedState,      \* the state rotateState reported last
  proxyHistory,     \* history: the states the proxy has used, in order
  investInput,      \* the data and metrics handed to assessRisk
  investOutput      \* riskScore, investmentScore and recommendation

\* The state of one analyzeProperty run.
runVars == <<pc, queue, activeCount, pendingChecks, status, attempts, result,
             delayMs, scrapingResults, propertyId, thrown, dbReads, metricsRuns,
             calls, failedCalls, okCalls, lastFault, writes, startOrder>>

\* The storage.
dbVars == <<properties, avmRows, now, dbWrites, lastSaved>>

\* The reconciliation and its result.
outVars == <<avmEstimates, analysis, returned, readFailed>>

\* ScrapingUtils.enforceRateLimit.
rateVars == <<rlNow, rateLimitMap, rlWaiting, rlPassed>>

\* ScrapingUtils.fetchWithRetry.
fetchVars == <<fwMaxRetries, fwAttempt, fwPc, fwLog>>

\* ProxyManager.
proxyVars == <<currentStateIndex, proxyState, loggedState, proxyHistory>>

\* InvestmentAnalyzer.
investVars == <<investInput, investOutput>>

\* The state of the utilities that a run of analyzeProperty does not touch.
libVars == <<request, rateVars, fetchVars, proxyVars, investVars>>

vars == <<pc, queue, activeCount, pendingChecks, status, attempts, result,
          delayMs, scrapingResults, propertyId, thrown, dbReads, metricsRuns,
          calls, failedCalls, okCalls, lastFault, writes, startOrder,
          properties, avmRows, now, avmEstimates, analysis, returned,
          readFailed, dbWrites, lastSaved, request,
          rlNow, rateLimitMap, rlWaiting, rlPassed,
          fwMaxRetries, fwAttempt, fwPc, fwLog,
          currentStateIndex, proxyState, loggedState, proxyHistory,
          investInput, investOutput>>


(***************************************************************************)
(* Pieces of the code, as operators.                                       *)
(***************************************************************************)
\* A limiter that admits whenever work is queued.
CanAdmitUnbounded(active, q) == q # <<>>

\* p-limit, pLimit(CONCURRENT_SCRAPERS) (line 69): a queued task is admitted
\* only while fewer than `concurrency` tasks are active.
CanAdmit(active, q) == active < CONCURRENT_SCRAPERS /\ q # <<>>

\* A limiter that admits the most recently submitted task.
DequeueLast(q) == q[Len(q)]

\* p-limit's queue is first in, first out: the task admitted is the head.
Dequeue(q) == Head(q)

\* The queue without the task p that was admitted.
Remaining(q, p) == SelectSeq(q, LAMBDA x : x # p)

\* A loop that allows one attempt too many.
ShouldRetryOffByOne(att, res) == att <= RETRY_ATTEMPTS /\ ~res.success

\* The loop condition, line 100.
ShouldRetry(att, res) == att < RETRY_ATTEMPTS /\ ~res.success

\* The delay awaited after a failed attempt, line 89.
ProgressiveDelay(att) == BASE_DELAY * att

\* A catch block that keeps the payload slot undefined-shaped.
CatchResultNoMessage(e) == [success |-> FALSE, data |-> NoData, error |-> NoError, duration |-> 0]

\* The outcome built by the catch block, lines 93-98.
CatchResult(e) == [success |-> FALSE, data |-> NoData, error |-> e, duration |-> 0]

\* A write whose key is the last name of the provider list, as when the
\* loop variable is shared by the task closures.
RecordOutcomeLastName(results, name, res) ==
  [k \in DOMAIN results \cup {SCRAPERS[Len(SCRAPERS)]} |->
     IF k = SCRAPERS[Len(SCRAPERS)] THEN res ELSE results[k]]

\* A write that records successes only.
RecordOutcomeSuccessOnly(results, name, res) ==
  IF res.success
    THEN [k \in DOMAIN results \cup {name} |-> IF k = name THEN res ELSE results[k]]
    ELSE results

\* scrapingResults[name] = result, line 102.
RecordOutcome(results, name, res) ==
  [k \in DOMAIN results \cup {name} |-> IF k = name THEN res ELSE results[k]]

\* A join that continues as soon as one task has settled.
AllSettledAny(st) == \E p \in Names : st[p] \in {"settled", "released"}

\* Promise.allSettled(scrapingTasks), line 108: every task promise has
\* settled.
AllSettled(st) == \A p \in Names : st[p] \in {"settled", "released"}

\* An identification that accepts any recorded outcome.
IdentifiedByAny(results) == \E k \in DOMAIN results : TRUE

\* An identification that looks at the success flag only.
IdentifiedBySuccess(results) == \E k \in DOMAIN results : results[k].success

\* The loop of lines 112-118: some recorded outcome is successful and its
\* payload has a property.
Identified(results) ==
  \E k \in DOMAIN results : results[k].success /\ results[k].data.property

\* A request: address, city, state, zipCode (lines 58-61).  A string is the
\* sequence of its characters.
Request ==
  << <<"1", "2", " ", "E", "l", "m">>, <<"A", "u", "s", "t", "i", "n">>,
     <<"T", "X">>, <<"7", "8", "7", "0", "1">> >>

\* The letters String.prototype.toLowerCase changes, and what they become.
UpperLetters ==
  <<"A", "B", "C", "D", "E", "F", "G", "H", "I", "J", "K", "L", "M",
    "N", "O", "P", "Q", "R", "S", "T", "U", "V", "W", "X", "Y", "Z">>
LowerLetters ==
  <<"a", "b", "c", "d", "e", "f", "g", "h", "i", "j", "k", "l", "m",
    "n", "o", "p", "q", "r", "s", "t", "u", "v", "w", "x", "y", "z">>

\* The lower-case and the upper-case form of a character.
LowerOf ==
  [c \in {UpperLetters[i] : i \in 1..Len(UpperLetters)} |->
     LowerLetters[CHOOSE i \in 1..Len(UpperLetters) : UpperLetters[i] = c]]
UpperOf ==
  [c \in {LowerLetters[i] : i \in 1..Len(LowerLetters)} |->
     UpperLetters[CHOOSE i \in 1..Len(LowerLetters) : LowerLetters[i] = c]]

\* String.prototype.toLowerCase and toUpperCase.
toLowerCase(str) ==
  [i \in 1..Len(str) |-> IF str[i] \in DOMAIN LowerOf THEN LowerOf[str[i]] ELSE str[i]]
toUpperCase(str) ==
  [i \in 1..Len(str) |-> IF str[i] \in DOMAIN UpperOf THEN UpperOf[str[i]] ELSE str[i]]

\* crypto.MD5(propertyString).toString(): the digest is kept symbolic, equal
\* for equal strings and different for the different strings of the model.
MD5(str) == <<"md5", str>>

\* A generatePropertyHash that does not lower-case its arguments.
generatePropertyHashCaseSensitive(address, city, state, zipCode) ==
  MD5(address \o <<"_">> \o city \o <<"_">> \o state \o <<"_">> \o zipCode)

\* ScrapingUtils.generatePropertyHash (V2_IMPLEMENTATION_SUMMARY.md lines
\* 615-618): address, city and state are lower-cased, zipCode is not.
generatePropertyHash(address, city, state, zipCode) ==
  MD5(toLowerCase(address) \o <<"_">> \o toLowerCase(city) \o <<"_">> \o
      toLowerCase(state) \o <<"_">> \o zipCode)

\* The hash of the fields of a request.
PropertyHashOf(req) == generatePropertyHash(req[1], req[2], req[3], req[4])

\* ScrapingUtils.generatePropertyHash applied to the request of the run
\* (line 114).
PropertyHash == PropertyHashOf(request)

\* The stored property that savePropertyData creates for a request
\* (V2_IMPLEMENTATION_SUMMARY.md lines 775-783): its id is the hash.
PropertyRow(req) ==
  [id |-> PropertyHashOf(req), address |-> req[1], city |-> req[2],
   state |-> req[3], zipCode |-> req[4], lastUpdated |-> -1]

\* The ids of stored properties.
IdsOf(props) == {r.id : r \in props}

\* propertyId: string | null = null, line 111.
NoId == <<>>

(***************************************************************************)
(* Reconciliation: AVMAggregator.calculateAnalysisMetrics (lines 170-236).  *)
(* An estimate list is modelled as the set of its entries; every quantity   *)
(* computed from it is independent of the order of the list.  The code      *)
(* computes in double precision; the operators below compute the same       *)
(* quantities exactly, on rationals kept as <<numerator, denominator>>.     *)
(***************************************************************************)
\* null / undefined in an optional numeric field (confidence, lowRange,
\* highRange).
Null == -1

\* ScrapingUtils.isValidPrice, the upper limit of a valid price.
PRICE_CEILING == 50000000

\* getDefaultConfidence, the value for a provider that is not in the table.
FALLBACK_CONFIDENCE == 65

\* A validity test that accepts the ceiling itself.
isValidPriceInclusive(price) == price > 0 /\ price <= PRICE_CEILING

\* ScrapingUtils.isValidPrice: price !== null && price > 0 && price < 50000000.
isValidPrice(price) == price > 0 /\ price < PRICE_CEILING

\* The table of getDefaultConfidence (lines 240-250).
defaultConfidences ==
  [homes_com_corelogic |-> 85, homes_com_collateral |-> 80,
   homes_com_quantarium |-> 75, homes_com_regeodata |-> 70,
   homes_com_homesgenie |-> 65, zillow |-> 80, redfin |-> 85,
   realtor_com |-> 75, movoto |-> 70]

\* A lookup without the fallback.
getDefaultConfidenceNoFallback(provider) ==
  IF provider \in DOMAIN defaultConfidences THEN defaultConfidences[provider] ELSE 0

\* getDefaultConfidence (line 252): defaultConfidences[provider] || 65.
getDefaultConfidence(provider) ==
  IF provider \in DOMAIN defaultConfidences /\ defaultConfidences[provider] # 0
    THEN defaultConfidences[provider]
    ELSE FALLBACK_CONFIDENCE

\* `if (est.confidence)` (line 205): the recorded confidence is used when it
\* is truthy, that is neither undefined nor 0.
HasConfidence(est) == est.confidence # Null /\ est.confidence # 0

\* The confidence one valid estimate contributes (lines 205-215).
ConfidenceOf(est) ==
  IF HasConfidence(est) THEN est.confidence ELSE getDefaultConfidence(est.provider)

RECURSIVE SumOver(_, _)
\* The sum of f over the set S, f a function on S.
SumOver(S, f) ==
  IF S = {} THEN 0
  ELSE LET x == CHOOSE y \in S : TRUE IN f[x] + SumOver(S \ {x}, f)

RECURSIVE Gcd(_, _)
\* The greatest common divisor of two naturals.
Gcd(a, b) == IF b = 0 THEN a ELSE Gcd(b, a % b)

RECURSIVE GcdOver(_)
\* The greatest common divisor of a set of positive integers.
GcdOver(S) ==
  IF S = {} THEN 0
  ELSE LET x == CHOOSE y \in S : TRUE IN Gcd(x, GcdOver(S \ {x}))

RECURSIVE FracLeq(_, _, _, _)
\* a/b <= c/d for naturals a, c and positive b, d, decided by comparing the
\* continued fractions, so that no product is formed.
FracLeq(a, b, c, d) ==
  LET qa == a \div b
      qc == c \div d
      ra == a % b
      rc == c % d
  IN IF qa # qc THEN qa < qc
     ELSE IF ra = 0 THEN TRUE
     ELSE IF rc = 0 THEN FALSE
     ELSE FracLeq(d, rc, b, ra)

\* A rounding that truncates.
RoundTruncating(num, den) == num \div den

\* Math.round(num / den) for num >= 0, den > 0 (line 229): the nearest
\* integer, halves rounded up.
Round(num, den) == (2 * num + den) \div (2 * den)

\* A count that skips the estimates that fall back to a default.
ConfidenceCountRecordedOnly(valid) == Cardinality({e \in valid : HasConfidence(e)})

\* confidenceCount (lines 202, 208, 214): incremented once per valid
\* estimate, in either branch.
ConfidenceCount(valid) == Cardinality(valid)

\* totalConfidence (lines 201, 207, 213).
TotalConfidence(valid) == SumOver(valid, [e \in valid |-> ConfidenceOf(e)])

\* confidenceByProvider (lines 200, 206, 212): one key per provider.
ConfidenceByProvider(valid) ==
  [p \in {e.provider : e \in valid} |->
     ConfidenceOf(CHOOSE e \in valid : e.provider = p)]

\* The square of coefficientOfVariation = standardDeviation / averageEstimate
\* (lines 221-222, 255-263), as the fraction <<n*sum(x^2) - sum(x)^2,
\* sum(x)^2>>; calculateStandardDeviation returns 0 for a single value.  The
\* ratio does not depend on the unit of the values, which are divided by
\* their greatest common divisor first.
CoefficientOfVariationSq(valid) ==
  LET g  == GcdOver({e.estimate : e \in valid})
      n  == Cardinality(valid)
      s  == SumOver(valid, [e \in valid |-> e.estimate \div g])
      q  == SumOver(valid, [e \in valid |-> (e.estimate \div g) * (e.estimate \div g)])
  IN IF n <= 1 THEN <<0, s * s>> ELSE <<n * q - s * s, s * s>>

\* A discount without the floor of one half.
DiscountSqUnclamped(cv2) == cv2

\* consistencyMultiplier = Math.max(0.5, 1 - coefficientOfVariation) (line
\* 225), kept as the square of 1 - consistencyMultiplier: the multiplier is
\* 0.5 as soon as the coefficient of variation reaches 0.5.
DiscountSq(cv2) == IF 4 * cv2[1] >= cv2[2] THEN <<1, 4>> ELSE cv2

\* k <= (total / count) * (1 - sqrt(d2)) + 1/2, for the fraction d2.
AtMostAdjusted(k, total, count, d2) ==
  LET a == 2 * total + count - 2 * k * count IN
  IF total = 0 THEN a >= 0
  ELSE a >= 0 /\ FracLeq(d2[1], d2[2], a * a, 4 * total * total)

RECURSIVE LargestAtMost(_, _, _, _, _)
\* The largest k in lo..hi with AtMostAdjusted(k, ...), which holds at lo and
\* fails above hi, found by bisection.
LargestAtMost(lo, hi, total, count, d2) ==
  IF lo = hi THEN lo
  ELSE LET mid == (lo + hi + 1) \div 2 IN
       IF AtMostAdjusted(mid, total, count, d2)
         THEN LargestAtMost(mid, hi, total, count, d2)
         ELSE LargestAtMost(lo, mid - 1, total, count, d2)

\* Math.round(adjustedConfidence) (lines 226, 232), where adjustedConfidence
\* = overallConfidence * consistencyMultiplier and overallConfidence is
\* totalConfidence / confidenceCount, or 0 when the count is 0 (line 218).
\* The coefficient of variation of n positive values is below sqrt(n - 1),
\* so the result lies within -2 * total .. total + 1.
RoundAdjusted(total, count, d2) ==
  IF count = 0 THEN 0
  ELSE LargestAtMost(-2 * total - 1, total + 1, total, count, d2)

\* The result for no estimate, or no valid estimate (lines 171-187).
NoEstimateMetrics ==
  [averageEstimate |-> 0,
   estimateRange |-> [min |-> 0, max |-> 0],
   confidence |-> [overall |-> 0, byProvider |-> << >>],
   totalConfidence |-> 0, confidenceCount |-> 0, discountSq |-> <<0, 1>>]

\* calculateAnalysisMetrics (lines 170-236).  Besides the three fields the
\* code returns, the record keeps the locals totalConfidence and
\* confidenceCount and the discount applied.
calculateAnalysisMetrics(estimates) ==
  IF estimates = {} THEN NoEstimateMetrics
  ELSE
    LET validEstimates == {est \in estimates : isValidPrice(est.estimate)} IN
    IF validEstimates = {} THEN NoEstimateMetrics
    ELSE
      LET estimateValues == {est.estimate : est \in validEstimates}
          sum   == SumOver(validEstimates, [est \in validEstimates |-> est.estimate])
          total == TotalConfidence(validEstimates)
          count == ConfidenceCount(validEstimates)
          d2    == DiscountSq(CoefficientOfVariationSq(validEstimates))
      IN [averageEstimate |-> Round(sum, Cardinality(validEstimates)),
          estimateRange |->
            [min |-> CHOOSE v \in estimateValues : \A w \in estimateValues : v <= w,
             max |-> CHOOSE v \in estimateValues : \A w \in estimateValues : v >= w],
          confidence |->
            [overall |-> RoundAdjusted(total, count, d2),
             byProvider |-> ConfidenceByProvider(validEstimates)],
          totalConfidence |-> total, confidenceCount |-> count, discountSq |-> d2]

\* analysis before calculateAnalysisMetrics has run.
NoAnalysis ==
  [averageEstimate |-> -1,
   estimateRange |-> [min |-> -1, max |-> -1],
   confidence |-> [overall |-> -1, byProvider |-> << >>],
   totalConfidence |-> -1, confidenceCount |-> -1, discountSq |-> <<0, 1>>]

(***************************************************************************)
(* The storage (prisma.aVMEstimate, prisma.property) and the values the    *)
(* public interface returns.                                               *)
(***************************************************************************)
\* `returned` before any call has returned.
NothingReturned == [kind |-> "nothing"]

\* The value null returned by getPropertyAnalysis (lines 277, 306).
NullReturned == [kind |-> "null"]

\* The rows of the property pid, as the entries built at lines 156-163 and
\* 280-287: `?? undefined` keeps every field as it is stored.
EntriesOf(rows, pid) ==
  { [provider |-> k[2], estimate |-> rows[k].estimate,
     confidence |-> rows[k].confidence, lowRange |-> rows[k].lowRange,
     highRange |-> rows[k].highRange, lastUpdated |-> rows[k].lastUpdated]
    : k \in {j \in DOMAIN rows : j[1] = pid} }

\* A field given as undefined in the `update` branch of a Prisma upsert is
\* left as it is stored.
KeepIfUndefined(new, old) == IF new = Null THEN old ELSE new

\* prisma.aVMEstimate.upsert of ScrapingUtils.saveAVMEstimate
\* (V2_IMPLEMENTATION_SUMMARY.md lines 795-817): keyed by propertyId_provider;
\* `update` sets estimate and lastUpdated and the optional fields that are
\* given, `create` stores the optional fields as null when not given.
upsertEstimate(rows, pid, avmData, t) ==
  LET k == <<pid, avmData.provider>> IN
  IF k \in DOMAIN rows
    THEN [rows EXCEPT ![k] =
            [estimate |-> avmData.estimate,
             confidence |-> KeepIfUndefined(avmData.confidence, @.confidence),
             lowRange |-> KeepIfUndefined(avmData.lowRange, @.lowRange),
             highRange |-> KeepIfUndefined(avmData.highRange, @.highRange),
             lastUpdated |-> t]]
    ELSE [i \in DOMAIN rows \cup {k} |->
            IF i = k
              THEN [estimate |-> avmData.estimate, confidence |-> avmData.confidence,
                    lowRange |-> avmData.lowRange, highRange |-> avmData.highRange,
                    lastUpdated |-> t]
              ELSE rows[i]]

\* The AVMData of the latest completed save of each key.
Remember(last, pid, avmData) ==
  LET k == <<pid, avmData.provider>> IN
  [i \in DOMAIN last \cup {k} |-> IF i = k THEN avmData ELSE last[i]]

\* The AVMData a provider's scraper extracts on success.
ScrapedEstimate(p) ==
  CASE p = "homes_com"   -> [provider |-> p, estimate |-> 300000, confidence |-> Null,
                             lowRange |-> Null, highRange |-> Null]
    [] p = "zillow"      -> [provider |-> p, estimate |-> 310000, confidence |-> 85,
                             lowRange |-> 300000, highRange |-> 320000]
    [] p = "movoto"      -> [provider |-> p, estimate |-> 290000, confidence |-> 70,
                             lowRange |-> Null, highRange |-> Null]
    [] p = "redfin"      -> [provider |-> p, estimate |-> 300000, confidence |-> 80,
                             lowRange |-> Null, highRange |-> Null]
    [] OTHER             -> [provider |-> p, estimate |-> 50000000, confidence |-> 75,
                             lowRange |-> Null, highRange |-> Null]

\* The stored properties after a successful scrapeAVM call: the property of
\* the request is stored once (spec.md, 6: upsertProperty, idempotent on
\* the address fields).
ScraperSavesProperty(props, req) ==
  IF PropertyHashOf(req) \in IdsOf(props) THEN props ELSE props \cup {PropertyRow(req)}

\* The storage after a scrapeAVM call of provider p resolved with r: a
\* scraper that succeeds has saved its estimate for the property (spec.md,
\* 4.3, side effect of a successful provider outcome).
ScraperSaves(rows, pid, p, r, t) ==
  IF r.success THEN upsertEstimate(rows, pid, ScrapedEstimate(p), t) ELSE rows

\* A fetchAVMEstimates that lets the error of the read escape.
fetchAVMEstimatesRethrowing(ok, rows, pid) ==
  [threw |-> ~ok, estimates |-> IF ok THEN EntriesOf(rows, pid) ELSE {}]

\* AVMAggregator.fetchAVMEstimates (lines 149-168): the rows of the property,
\* or the empty list when the read throws; the error is logged, never
\* rethrown.
fetchAVMEstimates(ok, rows, pid) ==
  [threw |-> FALSE, estimates |-> IF ok THEN EntriesOf(rows, pid) ELSE {}]

\* The PropertyAnalysisResult assembled at lines 134-146 and 291-303.
AnalysisResult(pid, estimates, metrics, outcomes) ==
  [kind |-> "analysis",
   propertyId |-> pid,
   avmEstimates |-> estimates,
   averageEstimate |-> metrics.averageEstimate,
   estimateRange |-> metrics.estimateRange,
   confidence |-> metrics.confidence,
   scrapingResults |-> outcomes]

\* A getPropertyAnalysis without the check of line 276: a property that is
\* not stored is reconciled as a property without estimates.
getPropertyAnalysisUnchecked(ok, props, rows, pid) ==
  IF ~ok
    THEN NullReturned
    ELSE LET estimates == EntriesOf(rows, pid) IN
         AnalysisResult(pid, estimates, calculateAnalysisMetrics(estimates), << >>)

\* AVMAggregator.getPropertyAnalysis (lines 265-308): null when the read
\* throws (lines 304-307) or finds no property (lines 276-278); otherwise
\* the property's stored estimates, their statistics and an empty
\* scrapingResults.
getPropertyAnalysis(ok, props, rows, pid) ==
  IF ~ok \/ pid \notin IdsOf(props)
    THEN NullReturned
    ELSE LET estimates == EntriesOf(rows, pid) IN
         AnalysisResult(pid, estimates, calculateAnalysisMetrics(estimates), << >>)

(***************************************************************************)
(* Initial state: analyzeProperty has been called and has not run yet.     *)
(***************************************************************************)
\* No enforceRateLimit call has been made.
RateIdle ==
  /\ rlNow = 0
  /\ rateLimitMap = << >>
  /\ rlWaiting = << >>
  /\ rlPassed = << >>

\* fetchWithRetry has not been called.
FetchIdle ==
  /\ fwMaxRetries = 0
  /\ fwAttempt = 0
  /\ fwPc = "idle"
  /\ fwLog = << >>

\* The ProxyManager has not been constructed.
ProxyIdle ==
  /\ currentStateIndex = 0
  /\ proxyState = "none"
  /\ loggedState = "none"
  /\ proxyHistory = << >>

\* analyzeInvestment has not been called.
InvestIdle ==
  /\ investInput = << >>
  /\ investOutput = [done |-> FALSE]

\* The utilities are idle.
LibIdle == RateIdle /\ FetchIdle /\ ProxyIdle /\ InvestIdle

\* The run variables before analyzeProperty has run.
RunIdle ==
  /\ pc = "start"
  /\ queue = <<>>
  /\ activeCount = 0
  /\ pendingChecks = 0
  /\ status = [p \in Names |-> "unsubmitted"]
  /\ attempts = [p \in Names |-> 0]
  /\ result = [p \in Names |-> Unassigned]
  /\ delayMs = [p \in Names |-> 0]
  /\ scrapingResults = << >>
  /\ propertyId = NoId
  /\ thrown = NoError
  /\ dbReads = 0
  /\ metricsRuns = 0
  /\ calls = [p \in Names |-> 0]
  /\ failedCalls = [p \in Names |-> 0]
  /\ okCalls = [p \in Names |-> 0]
  /\ lastFault = [p \in Names |-> NoError]
  /\ writes = [p \in Names |-> <<>>]
  /\ startOrder = <<>>

\* Nothing has been reconciled or returned yet.
OutIdle ==
  /\ avmEstimates = {}
  /\ analysis = NoAnalysis
  /\ returned = NothingReturned
  /\ readFailed = FALSE

\* The storage at the start of a run: the property of the request is known
\* from an earlier run, which left an estimate of zillow, superseded if zillow
\* succeeds again, and an estimate of 0 of a Homes.com sub-provider.
RunStorage ==
  /\ properties = {PropertyRow(Request)}
  /\ avmRows = [k \in {<<PropertyHashOf(Request), "zillow">>,
                        <<PropertyHashOf(Request), "homes_com_corelogic">>} |->
                  IF k[2] = "zillow"
                    THEN [estimate |-> 290000, confidence |-> 70, lowRange |-> Null,
                          highRange |-> Null, lastUpdated |-> 0]
                    ELSE [estimate |-> 0, confidence |-> Null, lowRange |-> Null,
                          highRange |-> Null, lastUpdated |-> 0]]
  /\ now = 1
  /\ dbWrites = 0
  /\ lastSaved = << >>

Init == RunIdle /\ OutIdle /\ RunStorage /\ LibIdle /\ request = Request

\* No p-limit continuation is pending: timers and I/O completions run only
\* once the microtask queue is empty.
Quiescent == pendingChecks = 0 /\ \A p \in Names : status[p] # "settled"


(***************************************************************************)
(* Steps of one provider task (the async function of lines 73-104).        *)
(***************************************************************************)
\* The keys of the outcome map that a write created or changed.
Changed(old, new) ==
  {k \in DOMAIN new : k \notin DOMAIN old \/ new[k] # old[k]}

\* Lines 102-103: the task writes its outcome and its promise resolves.
Settle(p, r) ==
  /\ scrapingResults' = RecordOutcome(scrapingResults, p, r)
  /\ writes' = [writes EXCEPT ![p] =
                  Append(@, Changed(scrapingResults, scrapingResults'))]
  /\ status' = [status EXCEPT ![p] = "settled"]
  /\ UNCHANGED <<attempts, delayMs, calls>>

\* Lines 79-82: the loop body starts again, attempts++ and scrapeAVM is
\* called.
Retry(p) ==
  /\ attempts' = [attempts EXCEPT ![p] = @ + 1]
  /\ calls' = [calls EXCEPT ![p] = @ + 1]
  /\ status' = [status EXCEPT ![p] = "calling"]
  /\ delayMs' = [delayMs EXCEPT ![p] = 0]
  /\ UNCHANGED <<scrapingResults, writes>>

(***************************************************************************)
(* Actions.                                                                *)
(***************************************************************************)
\* analyzeProperty up to its first await (lines 63-108): the outcome map is
\* created empty, and SCRAPERS.map submits one task per provider to the
\* limiter, each submission deferring one admission check.
Start ==
  /\ pc = "start"
  /\ pc' = "awaiting"
  /\ scrapingResults' = << >>
  /\ queue' = SCRAPERS
  /\ pendingChecks' = Len(SCRAPERS)
  /\ status' = [p \in Names |-> "queued"]
  /\ UNCHANGED <<activeCount, attempts, result, delayMs, propertyId, thrown,
                 dbReads, metricsRuns, calls, failedCalls, okCalls, lastFault, writes, startOrder>>
  /\ UNCHANGED <<dbVars, outVars>>
  /\ UNCHANGED libVars

\* p-limit's deferred admission check of one submission; an admitted task
\* runs at once up to its first scrapeAVM call (lines 74-82).
LimitCheck ==
  /\ pendingChecks > 0
  /\ pendingChecks' = pendingChecks - 1
  /\ IF CanAdmit(activeCount, queue)
       THEN LET q == Dequeue(queue) IN
            /\ queue' = Remaining(queue, q)
            /\ activeCount' = activeCount + 1
            /\ status' = [status EXCEPT ![q] = "calling"]
            /\ attempts' = [attempts EXCEPT ![q] = 0 + 1]
            /\ calls' = [calls EXCEPT ![q] = @ + 1]
            /\ startOrder' = Append(startOrder, q)
       ELSE UNCHANGED <<queue, activeCount, status, attempts, calls, startOrder>>
  /\ UNCHANGED <<pc, result, delayMs, scrapingResults, propertyId, thrown,
                 dbReads, metricsRuns, failedCalls, okCalls, lastFault, writes>>
  /\ UNCHANGED <<dbVars, outVars>>
  /\ UNCHANGED libVars

\* p-limit's next(), run when the task of p has settled: the slot is given
\* back and the head of the queue, if any, is started.
LimitNext(p) ==
  /\ status[p] = "settled"
  /\ IF queue # <<>>
       THEN LET q == Dequeue(queue) IN
            /\ queue' = Remaining(queue, q)
            /\ activeCount' = (activeCount - 1) + 1
            /\ status' = [status EXCEPT ![p] = "released", ![q] = "calling"]
            /\ attempts' = [attempts EXCEPT ![q] = 0 + 1]
            /\ calls' = [calls EXCEPT ![q] = @ + 1]
            /\ startOrder' = Append(startOrder, q)
       ELSE /\ activeCount' = activeCount - 1
            /\ status' = [status EXCEPT ![p] = "released"]
            /\ UNCHANGED <<queue, attempts, calls, startOrder>>
  /\ UNCHANGED <<pc, pendingChecks, result, delayMs, scrapingResults, propertyId,
                 thrown, dbReads, metricsRuns, failedCalls, okCalls, lastFault, writes>>
  /\ UNCHANGED <<dbVars, outVars>>
  /\ UNCHANGED libVars

\* The scrapeAVM call of p resolves with r (lines 82-90, 100-103).
ScrapeReturns(p, r) ==
  /\ Quiescent
  /\ status[p] = "calling"
  /\ r \in Returned(p, attempts[p])
  /\ result' = [result EXCEPT ![p] = r]
  /\ failedCalls' = [failedCalls EXCEPT ![p] = IF r.success THEN @ ELSE @ + 1]
  /\ okCalls' = [okCalls EXCEPT ![p] = IF r.success THEN @ + 1 ELSE @]
  /\ lastFault' = [lastFault EXCEPT ![p] = NoError]
  /\ IF r.success
       THEN Settle(p, r)
       ELSE IF attempts[p] < RETRY_ATTEMPTS
              THEN /\ status' = [status EXCEPT ![p] = "delaying"]
                   /\ delayMs' = [delayMs EXCEPT ![p] = ProgressiveDelay(attempts[p])]
                   /\ UNCHANGED <<attempts, calls, scrapingResults, writes>>
              ELSE IF ShouldRetry(attempts[p], r)
                     THEN Retry(p)
                     ELSE Settle(p, r)
  /\ UNCHANGED <<pc, queue, activeCount, pendingChecks, propertyId, thrown,
                 dbReads, metricsRuns, startOrder>>
  /\ avmRows' = ScraperSaves(avmRows, PropertyHash, p, r, now)
  /\ properties' = IF r.success THEN ScraperSavesProperty(properties, request) ELSE properties
  /\ dbWrites' = IF r.success THEN dbWrites + 1 ELSE dbWrites
  /\ lastSaved' = IF r.success
                    THEN Remember(lastSaved, PropertyHash, ScrapedEstimate(p))
                    ELSE lastSaved
  /\ UNCHANGED <<now, outVars>>
  /\ UNCHANGED libVars

\* The delay awaited at line 89 elapses; the loop condition of line 100 is
\* evaluated.
DelayElapses(p) ==
  /\ Quiescent
  /\ status[p] = "delaying"
  /\ IF ShouldRetry(attempts[p], result[p])
       THEN Retry(p)
       ELSE Settle(p, result[p])
  /\ UNCHANGED <<pc, queue, activeCount, pendingChecks, result, propertyId, thrown,
                 dbReads, metricsRuns, failedCalls, okCalls, lastFault, startOrder>>
  /\ UNCHANGED <<dbVars, outVars>>
  /\ UNCHANGED libVars

\* The scrapeAVM call of p throws e (lines 91-100, 102-103): the catch block
\* builds the outcome and the loop condition is evaluated, with no await in
\* between.
ScrapeThrows(p, e) ==
  /\ Quiescent
  /\ status[p] = "calling"
  /\ e \in Thrown(p, attempts[p])
  /\ result' = [result EXCEPT ![p] = CatchResult(e)]
  /\ failedCalls' = [failedCalls EXCEPT ![p] = @ + 1]
  /\ lastFault' = [lastFault EXCEPT ![p] = e]
  /\ UNCHANGED okCalls
  /\ IF ShouldRetry(attempts[p], result'[p])
       THEN Retry(p)
       ELSE Settle(p, result'[p])
  /\ UNCHANGED <<pc, queue, activeCount, pendingChecks, propertyId, thrown,
                 dbReads, metricsRuns, startOrder>>
  /\ UNCHANGED <<dbVars, outVars>>
  /\ UNCHANGED libVars

\* The continuation of `await Promise.allSettled` (lines 108-125): the
\* property is identified from the outcome map; without a property id the run
\* throws, otherwise fetchAVMEstimates issues its read.
Join ==
  /\ pc = "awaiting"
  /\ AllSettled(status)
  /\ IF Identified(scrapingResults)
       THEN /\ propertyId' = PropertyHash
            /\ dbReads' = dbReads + 1
            /\ pc' = "fetching"
            /\ UNCHANGED thrown
       ELSE /\ propertyId' = NoId
            /\ thrown' = NoSourceError
            /\ pc' = "thrown"
            /\ UNCHANGED dbReads
  /\ UNCHANGED <<queue, activeCount, pendingChecks, status, attempts, result,
                 delayMs, scrapingResults, metricsRuns, calls, failedCalls, okCalls, lastFault, writes, startOrder>>
  /\ UNCHANGED <<dbVars, outVars>>
  /\ UNCHANGED libVars

\* The read of the stored estimates completes, with rows (ok) or with an
\* error (lines 125, 149-168); the statistics are computed from what
\* fetchAVMEstimates returned and the result is returned (lines 128-146).
FetchCompletes(ok) ==
  /\ pc = "fetching"
  /\ LET fetched == fetchAVMEstimates(ok, avmRows, propertyId) IN
     IF fetched.threw
       THEN /\ pc' = "thrown"
            /\ thrown' = <<"database error">>
            /\ UNCHANGED <<metricsRuns, avmEstimates, analysis, returned>>
       ELSE /\ avmEstimates' = fetched.estimates
            /\ analysis' = calculateAnalysisMetrics(avmEstimates')
            /\ metricsRuns' = metricsRuns + 1
            /\ returned' = AnalysisResult(propertyId, avmEstimates', analysis', scrapingResults)
            /\ pc' = "returned"
            /\ UNCHANGED thrown
  /\ readFailed' = ~ok
  /\ UNCHANGED <<queue, activeCount, pendingChecks, status, attempts, result,
                 delayMs, scrapingResults, propertyId, dbReads,
                 calls, failedCalls, okCalls, lastFault, writes, startOrder>>
  /\ UNCHANGED dbVars
  /\ UNCHANGED libVars

Next ==
  \/ Start
  \/ LimitCheck
  \/ \E p \in Names : LimitNext(p)
  \/ \E p \in Names : \E r \in Returned(p, attempts[p]) : ScrapeReturns(p, r)
  \/ \E p \in Names : \E e \in Thrown(p, attempts[p]) : ScrapeThrows(p, e)
  \/ \E p \in Names : DelayElapses(p)
  \/ Join
  \/ \E ok \in BOOLEAN : FetchCompletes(ok)

Spec == Init /\ [][Next]_vars

TypeOK ==
  /\ pc \in {"start", "awaiting", "fetching", "returned", "thrown"}
  /\ activeCount \in 0..Len(SCRAPERS)
  /\ DOMAIN scrapingResults \subseteq Names


(***************************************************************************)
(* Properties of the aggregation run.                                      *)
(***************************************************************************)
\* The providers whose scrapeAVM call is in flight.
InFlight == {p \in Names : status[p] = "calling"}

\* The provider tasks whose promise has settled.
Terminal(p) == status[p] \in {"settled", "released"}

\* analyzeProperty is past `await Promise.allSettled`.
PastJoin == pc \in {"fetching", "returned", "thrown"}

\* C1: at no instant are more than CONCURRENT_SCRAPERS scrapeAVM calls in
\* flight.
C1_ConcurrencyBound == Cardinality(InFlight) <= CONCURRENT_SCRAPERS

\* The limit is reached while further providers are still queued.
C1_Witness == Cardinality(InFlight) = CONCURRENT_SCRAPERS /\ Len(queue) >= 2

\* C2: once the tasks have been joined, the outcome map has exactly one entry
\* per configured provider, however many of them failed or threw.
C2_OneEntryPerProvider == PastJoin => DOMAIN scrapingResults = Names

\* A joined run in which a provider failed by throwing, another by returning
\* success:false, and a third succeeded.
C2_Witness ==
  /\ PastJoin
  /\ \E p, q, r \in Names :
        /\ lastFault[p] # NoError
        /\ ~scrapingResults[q].success /\ lastFault[q] = NoError
        /\ scrapingResults[r].success

\* C3 (state part): no provider is called more than RETRY_ATTEMPTS times, at
\* most one call of a provider succeeds, and a settled provider all of whose
\* calls failed was called exactly RETRY_ATTEMPTS times.
C3_Counts ==
  \A p \in Names :
    /\ calls[p] <= RETRY_ATTEMPTS
    /\ okCalls[p] <= 1
    /\ (Terminal(p) /\ okCalls[p] = 0) =>
          (calls[p] = RETRY_ATTEMPTS /\ failedCalls[p] = RETRY_ATTEMPTS)

\* C3 (step part): once a call of a provider has succeeded, no further call
\* is made for it.
C3_NoCallAfterSuccess ==
  \A p \in Names : okCalls[p] >= 1 => calls'[p] = calls[p]

\* C3: each provider is called until its first success or until
\* RETRY_ATTEMPTS calls have been made, whichever comes first.
C3_RetryBound == []C3_Counts /\ [][C3_NoCallAfterSuccess]_vars

\* One provider exhausted its attempts, the last of them throwing; another
\* stopped after a first successful call.
C3_Witness ==
  \E p, q \in Names :
    /\ Terminal(p) /\ failedCalls[p] = RETRY_ATTEMPTS /\ calls[p] = RETRY_ATTEMPTS
    /\ lastFault[p] # NoError /\ result[p].error[2] = RETRY_ATTEMPTS
    /\ Terminal(q) /\ calls[q] = 1 /\ okCalls[q] = 1

\* C4: attempt n+1 of a provider starts only when a wait of BASE_DELAY * n
\* that followed failed attempt n elapses, whether attempt n threw or returned
\* success:false; and a wait is pending only while attempts remain.
C4_BackoffBeforeEveryRetry ==
  /\ [][\A p \in Names :
          (calls[p] >= 1 /\ calls'[p] = calls[p] + 1)
            => (status[p] = "delaying" /\ delayMs[p] = BASE_DELAY * calls[p])]_vars
  /\ [](\A p \in Names : status[p] = "delaying" => calls[p] < RETRY_ATTEMPTS)

\* C5 (state part): the only error analyzeProperty rejects with is its own,
\* and the recorded outcome of a task whose last call threw is the failed
\* outcome carrying the thrown error's message.
C5_Converted ==
  /\ thrown \in {NoError, NoSourceError}
  /\ \A p \in Names :
        (Terminal(p) /\ lastFault[p] # NoError /\ p \in DOMAIN scrapingResults)
          => scrapingResults[p] =
               [success |-> FALSE, data |-> NoData, error |-> lastFault[p], duration |-> 0]

\* C5 (step part): a step in which a call of p throws leaves pc and every
\* other task's position, result and recorded outcome as they were, apart
\* from a task that is admitted to the slot p gives back.
C5_OthersUntouched ==
  \A p \in Names :
    (lastFault'[p] # NoError /\ lastFault'[p] # lastFault[p])
      => /\ pc' = pc /\ thrown' = thrown
         /\ \A q \in Names \ {p} :
               /\ status'[q] = status[q]
               /\ result'[q] = result[q]
               /\ (q \in DOMAIN scrapingResults
                     => q \in DOMAIN scrapingResults' /\ scrapingResults'[q] = scrapingResults[q])

\* C5: a scrapeAVM call that throws becomes a failed outcome of its provider;
\* the fault reaches neither the caller nor any other provider task.
C5_ThrowIsContained == []C5_Converted /\ [][C5_OthersUntouched]_vars

\* A run that returned a result although some provider used all its attempts
\* and its last call threw.
C5_Witness ==
  /\ pc = "returned"
  /\ \E p \in Names : lastFault[p] # NoError /\ failedCalls[p] = RETRY_ATTEMPTS

\* Every provider's final outcome has success false.
AllFailed ==
  \A p \in Names :
    Terminal(p) /\ p \in DOMAIN scrapingResults /\ ~scrapingResults[p].success

\* C6: when every provider's final outcome has success false, the run throws
\* NoSourceError, and neither reads the stored estimates nor computes
\* statistics.
C6_AllFailedThrows ==
  AllFailed =>
    /\ pc \in {"awaiting", "thrown"}
    /\ pc = "thrown" => thrown = NoSourceError
    /\ dbReads = 0
    /\ metricsRuns = 0

\* The run has thrown after all five providers failed.
C6_Witness == AllFailed /\ pc = "thrown" /\ thrown = NoSourceError

\* C7 as stated: whenever some provider's final outcome has success true, the
\* run does not throw, whatever the payload.
C7_AnySuccessReturns ==
  (PastJoin /\ \E p \in Names : scrapingResults[p].success) => pc # "thrown"

\* C7, amended: the run throws exactly when no provider's final outcome is a
\* success whose payload has a property; a success with a property makes the
\* run return.
C7_SuccessWithPropertyReturns ==
  PastJoin =>
    /\ pc = "thrown" <=>
         ~(\E p \in Names : scrapingResults[p].success /\ scrapingResults[p].data.property)
    /\ thrown = NoSourceError <=> pc = "thrown"

\* The run returned with one success that has a property, one success that
\* has none, and one failure.
C7_Witness ==
  /\ pc = "returned"
  /\ \E p, q, r \in Names :
        /\ scrapingResults[p].success /\ scrapingResults[p].data.property
        /\ scrapingResults[q].success /\ ~scrapingResults[q].data.property
        /\ ~scrapingResults[r].success

\* C8: identification, the read of the stored estimates and the statistics
\* begin only when every provider task is terminal: its outcome is recorded
\* and it either succeeded or used all its attempts.
C8_NothingBeforeJoin ==
  (PastJoin \/ propertyId # NoId \/ dbReads > 0 \/ metricsRuns > 0) =>
    \A p \in Names :
      /\ Terminal(p)
      /\ p \in DOMAIN scrapingResults
      /\ scrapingResults[p].success \/ calls[p] = RETRY_ATTEMPTS

\* The read has been issued after a run in which some provider needed its
\* second attempt to succeed and another exhausted its attempts.
C8_Witness ==
  /\ pc = "fetching" /\ dbReads = 1
  /\ \E p, q \in Names :
        /\ scrapingResults[p].success /\ calls[p] = RETRY_ATTEMPTS
        /\ ~scrapingResults[q].success

\* The call a recorded outcome came from: provider and attempt number.
Origin(r) ==
  IF r.success THEN <<r.data.provider, r.data.attempt>> ELSE <<r.error[1], r.error[2]>>

\* C9: a task writes the outcome map exactly once, under its own name only,
\* and the outcome recorded under a provider's name is the result of that
\* provider's own last call.
C9_OwnLastAttempt ==
  \A p \in Names :
    /\ Len(writes[p]) = (IF Terminal(p) THEN 1 ELSE 0)
    /\ \A i \in 1..Len(writes[p]) : writes[p][i] = {p}
    /\ p \in DOMAIN scrapingResults <=> Terminal(p)
    /\ p \in DOMAIN scrapingResults => Origin(scrapingResults[p]) = <<p, calls[p]>>

\* Tasks completed out of submission order: zillow has recorded the result of
\* its second call while homes_com, admitted first, is still calling.
C9_Witness ==
  /\ status["homes_com"] = "calling"
  /\ "zillow" \in DOMAIN scrapingResults /\ calls["zillow"] = RETRY_ATTEMPTS
  /\ "movoto" \in DOMAIN scrapingResults

\* The position of provider p in the static list.
Index(p) == CHOOSE i \in 1..Len(SCRAPERS) : SCRAPERS[i] = p

\* C10: tasks start in the order of the static provider list; a provider's
\* first call never starts before the first call of every provider listed
\* before it.
C10_AdmissionOrder ==
  /\ \A i \in 1..Len(startOrder) : startOrder[i] = SCRAPERS[i]
  /\ \A p, q \in Names : (Index(p) < Index(q) /\ calls[q] > 0) => calls[p] > 0

\* Every provider has been started, the later ones as slots were freed.
C10_Witness == Len(startOrder) = Len(SCRAPERS) /\ status["realtor_com"] = "calling"


(***************************************************************************)
(* Properties of the stored estimates in a run of analyzeProperty.         *)
(***************************************************************************)
\* The providers whose final outcome is a success.
Succeeded == {p \in DOMAIN scrapingResults : scrapingResults[p].success}

\* The providers of a list of estimates.
ProvidersOf(estimates) == {e.provider : e \in estimates}

C20_FailedReadDegrades ==
  readFailed =>
    /\ pc = "returned"
    /\ thrown = NoError
    /\ returned.kind = "analysis"
    /\ returned.propertyId = PropertyHash
    /\ returned.avmEstimates = {}
    /\ returned.averageEstimate = 0
    /\ returned.estimateRange = [min |-> 0, max |-> 0]
    /\ returned.confidence.overall = 0
    /\ DOMAIN returned.confidence.byProvider = {}
    /\ DOMAIN returned.scrapingResults = Names
    /\ returned.scrapingResults = scrapingResults
    /\ Succeeded # {}

\* The read failed in a run with a success and a failure, while the storage
\* holds estimates of the property.
C20_Witness ==
  /\ readFailed /\ pc = "returned"
  /\ Succeeded # {} /\ Succeeded # Names
  /\ EntriesOf(avmRows, propertyId) # {}
  /\ returned.avmEstimates = {}

(***************************************************************************)
(* Reconciliation on its own: the estimates are drawn from bounded sets    *)
(* and reconciled and assembled as getPropertyAnalysis does at lines       *)
(* 289-303.                                                                *)
(***************************************************************************)
\* The largest number of estimates reconciled at once.
MaxEstimates == 3

\* Providers of the reconciled estimates; homes_com is not in the table of
\* default confidences.
MetricProviders == {"zillow", "redfin", "movoto", "realtor_com", "homes_com"}

\* The estimate and confidence of a reconciled entry.
Quote(e, c) == [estimate |-> e, confidence |-> c]

\* The pairs the entries are drawn from: the spec's examples, values on and
\* beyond both limits of validity, a recorded confidence of 0 and entries
\* without a recorded confidence.
Quotes ==
  { Quote(300000, 80), Quote(310000, 85), Quote(290000, 70),
    Quote(100000, Null), Quote(900000, Null), Quote(300000, Null),
    Quote(300000, 0), Quote(0, 80), Quote(50000000, 85), Quote(40000000, 80) }

\* The estimates of a property have distinct providers (the key
\* propertyId_provider); at most MaxEstimates of them are drawn.
MetricInputs ==
  UNION { [P -> Quotes] :
          P \in {Q \in SUBSET MetricProviders : Cardinality(Q) <= MaxEstimates} }

\* The entries of an assignment of quotes to providers.
EntriesFrom(f) ==
  { [provider |-> p, estimate |-> f[p].estimate, confidence |-> f[p].confidence,
     lowRange |-> Null, highRange |-> Null, lastUpdated |-> 0] : p \in DOMAIN f }

\* The storage is not involved.
NoStorage ==
  /\ properties = {}
  /\ avmRows = << >>
  /\ now = 0
  /\ dbWrites = 0
  /\ lastSaved = << >>

InitMetrics ==
  /\ RunIdle
  /\ NoStorage
  /\ \E f \in MetricInputs : avmEstimates = EntriesFrom(f)
  /\ analysis = NoAnalysis
  /\ returned = NothingReturned
  /\ readFailed = FALSE
  /\ LibIdle
  /\ request = Request

\* Lines 289-303: the statistics are computed from the estimates and the
\* result is assembled, with an empty scrapingResults.
Reconcile ==
  /\ metricsRuns = 0
  /\ pc = "start"
  /\ analysis' = calculateAnalysisMetrics(avmEstimates)
  /\ metricsRuns' = metricsRuns + 1
  /\ returned' = AnalysisResult(NoId, avmEstimates, analysis', << >>)
  /\ UNCHANGED <<pc, queue, activeCount, pendingChecks, status, attempts, result,
                 delayMs, scrapingResults, propertyId, thrown, dbReads,
                 calls, failedCalls, okCalls, lastFault, writes, startOrder>>
  /\ UNCHANGED <<dbVars, avmEstimates, readFailed>>
  /\ UNCHANGED libVars

NextMetrics == Reconcile

SpecMetrics == InitMetrics /\ [][NextMetrics]_vars

(***************************************************************************)
(* Properties of the reconciliation.                                       *)
(***************************************************************************)
\* The statistics have been computed from avmEstimates.
Reconciled == metricsRuns = 1 /\ returned.kind = "analysis"

\* The estimates with 0 < estimate < 50,000,000.
InRange == {e \in avmEstimates : 0 < e.estimate /\ e.estimate < 50000000}

\* The sum of the estimates of a set of entries.
EstimateSum(S) == SumOver(S, [e \in S |-> e.estimate])

\* The statistics of a result, as returned.
Statistics(r) ==
  [averageEstimate |-> r.averageEstimate, estimateRange |-> r.estimateRange,
   confidence |-> r.confidence]

\* C13: the statistics are those of the estimates with 0 < estimate <
\* 50,000,000 alone; the other estimates stay in the returned avmEstimates;
\* with no estimate in range the result is exactly average 0, range {0, 0},
\* confidence {overall 0, byProvider empty}.
C13_OnlyValidEstimatesCount ==
  Reconciled =>
    /\ returned.avmEstimates = avmEstimates
    /\ Statistics(returned) = Statistics(calculateAnalysisMetrics(InRange))
    /\ DOMAIN returned.confidence.byProvider = {e.provider : e \in InRange}
    /\ InRange # {} =>
         /\ returned.estimateRange.min \in {e.estimate : e \in InRange}
         /\ returned.estimateRange.max \in {e.estimate : e \in InRange}
    /\ InRange = {} =>
         /\ returned.averageEstimate = 0
         /\ returned.estimateRange = [min |-> 0, max |-> 0]
         /\ returned.confidence.overall = 0
         /\ DOMAIN returned.confidence.byProvider = {}

\* Reconciled: an estimate of 0, an estimate of 50,000,000 and one estimate
\* in range.
C13_Witness ==
  /\ Reconciled
  /\ \E a, b \in avmEstimates : a.estimate = 0 /\ b.estimate = 50000000
  /\ Cardinality(InRange) = 1
  /\ Cardinality(returned.avmEstimates) = 3

\* Reconciled: no estimate in range among two.
C13_WitnessDegenerate ==
  Reconciled /\ InRange = {} /\ Cardinality(avmEstimates) = 2

\* C14: with a valid estimate, averageEstimate is the integer nearest to the
\* mean of the valid values, min and max are the smallest and the largest
\* valid value, and min <= averageEstimate <= max.
C14_MeanAndRange ==
  (Reconciled /\ InRange # {}) =>
    LET n == Cardinality(InRange)
        sum == EstimateSum(InRange)
        avg == returned.averageEstimate
        lo == returned.estimateRange.min
        hi == returned.estimateRange.max
    IN /\ 2 * (n * avg - sum) <= n
       /\ 2 * (sum - n * avg) <= n
       /\ \E e \in InRange : e.estimate = lo
       /\ \E e \in InRange : e.estimate = hi
       /\ \A e \in InRange : lo <= e.estimate /\ e.estimate <= hi
       /\ lo <= avg /\ avg <= hi

\* Reconciled: three valid values whose mean is not an integer and lies
\* above its integer part by more than one half.
C14_Witness ==
  /\ Reconciled
  /\ Cardinality(InRange) = 3
  /\ 3 * returned.averageEstimate > EstimateSum(InRange)
  /\ returned.estimateRange.min < returned.estimateRange.max

\* C15: a valid estimate with a recorded confidence, 0 included, has that
\* value as its provider's confidence; the default is used only when none is
\* recorded.
C15_RecordedConfidenceUsed ==
  Reconciled =>
    \A e \in InRange :
      IF e.confidence # Null
        THEN returned.confidence.byProvider[e.provider] = e.confidence
        ELSE returned.confidence.byProvider[e.provider] = getDefaultConfidence(e.provider)

\* The value of the default table for the providers drawn, 65 for a provider
\* that is not listed.
ListedDefault(p) ==
  CASE p = "redfin" -> 85
    [] p = "zillow" -> 80
    [] p = "realtor_com" -> 75
    [] p = "movoto" -> 70
    [] OTHER -> 65

\* C16: a valid estimate without a recorded confidence contributes the value
\* of the default table for its provider, and 65 when the provider is not
\* listed.
C16_DefaultConfidence ==
  Reconciled =>
    /\ \A e \in InRange :
         e.confidence = Null =>
           returned.confidence.byProvider[e.provider] = ListedDefault(e.provider)
    /\ (InRange # {} /\ \A e \in InRange : e.confidence = Null) =>
         analysis.totalConfidence = SumOver(InRange, [e \in InRange |-> ListedDefault(e.provider)])

\* Reconciled: valid estimates without a recorded confidence, one of
\* homes_com, which is not listed, and one of redfin.
C16_Witness ==
  /\ Reconciled
  /\ \E e, f \in InRange :
        /\ e.provider = "homes_com" /\ e.confidence = Null
        /\ returned.confidence.byProvider["homes_com"] = 65
        /\ f.provider = "redfin" /\ f.confidence = Null

\* The valid values are exactly those of the set V, one estimate each.
ValidValuesAre(V) ==
  {e.estimate : e \in InRange} = V /\ Cardinality(InRange) = Cardinality(V)

\* C17: the discount factor lies in [0.5, 1], so that the overall confidence
\* lies between the rounded half and the rounded whole of the mean of the
\* per-provider confidences, and equals the latter when the valid values
\* agree; the factor is exactly 0.5 for the values 100000 and 900000; the
\* values 300000, 310000, 290000 with confidences 80, 85, 70 give 76.
C17_ConsistencyDiscount ==
  (Reconciled /\ InRange # {}) =>
    LET total == analysis.totalConfidence
        count == analysis.confidenceCount
        d2 == analysis.discountSq
        overall == returned.confidence.overall
    IN /\ d2[1] >= 0 /\ d2[2] > 0 /\ 4 * d2[1] <= d2[2]
       /\ Round(total, 2 * count) <= overall
       /\ overall <= Round(total, count)
       /\ Cardinality({e.estimate : e \in InRange}) = 1 => overall = Round(total, count)
       /\ ValidValuesAre({100000, 900000}) =>
            (4 * d2[1] = d2[2] /\ overall = Round(total, 2 * count))
       /\ (/\ ValidValuesAre({300000, 310000, 290000})
           /\ \A e \in InRange :
                e.confidence = (CASE e.estimate = 300000 -> 80
                                  [] e.estimate = 310000 -> 85
                                  [] OTHER -> 70))
            => (/\ overall = 76
                /\ returned.averageEstimate = 300000
                /\ returned.estimateRange = [min |-> 290000, max |-> 310000])

\* Reconciled: the example of the spec, with overall confidence 76.
C17_Witness ==
  /\ Reconciled
  /\ ValidValuesAre({300000, 310000, 290000})
  /\ \A e \in InRange :
       e.confidence = (CASE e.estimate = 300000 -> 80
                         [] e.estimate = 310000 -> 85
                         [] OTHER -> 70)
  /\ returned.confidence.overall = 76

\* Reconciled: the values 100000 and 900000, with the factor at its floor.
C17_WitnessFloor ==
  /\ Reconciled
  /\ ValidValuesAre({100000, 900000})
  /\ 4 * analysis.discountSq[1] = analysis.discountSq[2]

\* C18: each valid estimate contributes one confidence, its own or the
\* default; byProvider holds exactly these, one per valid estimate, and the
\* undiscounted overall confidence totalConfidence / confidenceCount is
\* their mean.
C18_OneConfidencePerEstimate ==
  Reconciled =>
    LET by == returned.confidence.byProvider IN
    /\ DOMAIN by = {e.provider : e \in InRange}
    /\ Cardinality(DOMAIN by) = Cardinality(InRange)
    /\ \A e \in InRange :
         by[e.provider] \in {e.confidence, getDefaultConfidence(e.provider)}
    /\ InRange # {} =>
         /\ analysis.confidenceCount = Cardinality(DOMAIN by)
         /\ analysis.totalConfidence = SumOver(DOMAIN by, by)

\* Reconciled: three valid estimates that disagree, one with a recorded
\* confidence and one without, so that the overall confidence is discounted
\* while byProvider is not.
C18_Witness ==
  /\ Reconciled
  /\ Cardinality(InRange) = 3
  /\ \E e, f \in InRange : e.confidence = Null /\ f.confidence = 85
  /\ analysis.discountSq[1] > 0
  /\ returned.confidence.overall < Round(analysis.totalConfidence, analysis.confidenceCount)

(***************************************************************************)
(* The stored estimates on their own: saveAVMEstimate and                  *)
(* getPropertyAnalysis called in any order on a storage with two           *)
(* properties.                                                             *)
(***************************************************************************)
\* The largest number of saveAVMEstimate calls.
MaxSaves == 3

\* A second stored property, and a property id that is not stored.
OtherRequest ==
  << <<"9", " ", "O", "a", "k">>, <<"A", "u", "s", "t", "i", "n">>,
     <<"T", "X">>, <<"7", "8", "7", "0", "2">> >>
UnknownRequest ==
  << <<"1", " ", "E", "n", "d">>, <<"A", "u", "s", "t", "i", "n">>,
     <<"T", "X">>, <<"7", "8", "7", "0", "3">> >>
OtherProperty == PropertyHashOf(OtherRequest)
UnknownProperty == PropertyHashOf(UnknownRequest)

\* The ids of the stored properties.
StoredIds == {PropertyHashOf(Request), OtherProperty}

\* The providers estimates are saved for.
SaveProviders == {"zillow", "redfin"}

\* The AVMData saved for a provider: with every optional field, with none,
\* and with a confidence only (AVMData: confidence?, lowRange?, highRange?).
SaveData(p) ==
  { [provider |-> p, estimate |-> 300000, confidence |-> 80,
     lowRange |-> 290000, highRange |-> 310000],
    [provider |-> p, estimate |-> 310000, confidence |-> Null,
     lowRange |-> Null, highRange |-> Null],
    [provider |-> p, estimate |-> 310000, confidence |-> 85,
     lowRange |-> Null, highRange |-> Null] }

InitStore ==
  /\ RunIdle
  /\ OutIdle
  /\ properties = {PropertyRow(Request), PropertyRow(OtherRequest)}
  /\ avmRows = << >>
  /\ now = 1
  /\ dbWrites = 0
  /\ lastSaved = << >>
  /\ LibIdle
  /\ request = Request

\* ScrapingUtils.saveAVMEstimate(propertyId, avmData): the upsert, or the
\* error of the storage rethrown (lines 819-822) with nothing stored.
SaveAVMEstimate(pid, avmData, ok) ==
  /\ pc = "start"
  /\ dbWrites < MaxSaves
  /\ dbWrites' = dbWrites + 1
  /\ now' = now + 1
  /\ propertyId' = pid
  /\ IF ok
       THEN /\ avmRows' = upsertEstimate(avmRows, pid, avmData, now)
            /\ lastSaved' = Remember(lastSaved, pid, avmData)
            /\ thrown' = NoError
       ELSE /\ UNCHANGED <<avmRows, lastSaved>>
            /\ thrown' = <<"database error">>
  /\ avmEstimates' = {}
  /\ analysis' = NoAnalysis
  /\ returned' = NothingReturned
  /\ readFailed' = FALSE
  /\ UNCHANGED <<pc, queue, activeCount, pendingChecks, status, attempts, result,
                 delayMs, scrapingResults, dbReads, metricsRuns,
                 calls, failedCalls, okCalls, lastFault, writes, startOrder>>
  /\ UNCHANGED properties
  /\ UNCHANGED libVars

\* AVMAggregator.getPropertyAnalysis(propertyId) (lines 265-308).
GetPropertyAnalysis(pid, ok) ==
  /\ pc = "start"
  /\ propertyId' = pid
  /\ returned' = getPropertyAnalysis(ok, properties, avmRows, pid)
  /\ avmEstimates' = IF returned'.kind = "analysis" THEN returned'.avmEstimates ELSE {}
  /\ analysis' = IF returned'.kind = "analysis"
                   THEN calculateAnalysisMetrics(avmEstimates')
                   ELSE NoAnalysis
  /\ readFailed' = ~ok
  /\ thrown' = NoError
  /\ UNCHANGED <<pc, queue, activeCount, pendingChecks, status, attempts, result,
                 delayMs, scrapingResults, dbReads, metricsRuns,
                 calls, failedCalls, okCalls, lastFault, writes, startOrder>>
  /\ UNCHANGED dbVars
  /\ UNCHANGED libVars

NextStore ==
  \/ \E pid \in StoredIds, p \in SaveProviders, ok \in BOOLEAN :
       \E avmData \in SaveData(p) : SaveAVMEstimate(pid, avmData, ok)
  \/ \E pid \in StoredIds \cup {UnknownProperty}, ok \in BOOLEAN :
       GetPropertyAnalysis(pid, ok)

SpecStore == InitStore /\ [][NextStore]_vars

(***************************************************************************)
(* Properties of the stored estimates.                                     *)
(***************************************************************************)
\* The estimate, confidence and range of a stored row.
ValuesOf(row) ==
  [estimate |-> row.estimate, confidence |-> row.confidence,
   lowRange |-> row.lowRange, highRange |-> row.highRange]

\* The stored rows of a property and provider.
RowsOf(pid, p) == {k \in DOMAIN avmRows : k[1] = pid /\ k[2] = p}

\* C12: the storage holds at most one estimate per property and provider,
\* with the estimate, confidence and range of the latest completed save of
\* that pair; a save that repeats the arguments of the latest one changes
\* neither the stored pairs nor their values.
C12_LatestSaveStored ==
  /\ [](/\ \A pid \in StoredIds, p \in SaveProviders : Cardinality(RowsOf(pid, p)) <= 1
        /\ \A k \in DOMAIN lastSaved :
             /\ k \in DOMAIN avmRows
             /\ ValuesOf(avmRows[k]) = ValuesOf(lastSaved[k]))
  /\ [][(dbWrites' # dbWrites /\ thrown' = NoError /\ lastSaved' = lastSaved) =>
          /\ DOMAIN avmRows' = DOMAIN avmRows
          /\ \A k \in DOMAIN avmRows : ValuesOf(avmRows'[k]) = ValuesOf(avmRows[k])]_vars

\* The latest call was a getPropertyAnalysis.
Asked == returned.kind # "nothing"

\* The statistics if the estimates with 0 < estimate < 50,000,000 of a list
\* are E: their providers, the bounds of their range and the nearest integer
\* to their mean.
StatisticsMatch(r, E) ==
  /\ DOMAIN r.confidence.byProvider = ProvidersOf(E)
  /\ IF E = {}
       THEN /\ r.averageEstimate = 0
            /\ r.estimateRange = [min |-> 0, max |-> 0]
            /\ r.confidence.overall = 0
       ELSE /\ 2 * (Cardinality(E) * r.averageEstimate - EstimateSum(E)) <= Cardinality(E)
            /\ 2 * (EstimateSum(E) - Cardinality(E) * r.averageEstimate) <= Cardinality(E)
            /\ \A e \in E : r.estimateRange.min <= e.estimate /\ e.estimate <= r.estimateRange.max
            /\ r.confidence.overall > 0

\* C19 as stated: for a stored property getPropertyAnalysis returns the
\* statistics of its stored estimates, and null for an unknown one.
C19_StoredPropertyAnalysed ==
  Asked =>
    /\ propertyId \in IdsOf(properties) => returned.kind = "analysis"
    /\ propertyId \notin IdsOf(properties) => returned = NullReturned

\* C19, amended: getPropertyAnalysis calls no scraper and writes nothing; it
\* returns null when the property is unknown or the read fails, and
\* otherwise the stored estimates of the property, the statistics of the
\* reconciliation over them, and an empty scrapingResults.
C19_ReadOnlyAnalysis ==
  /\ [](Asked =>
          /\ returned.kind = "analysis" <=> (propertyId \in IdsOf(properties) /\ ~readFailed)
          /\ returned.kind # "analysis" => returned = NullReturned
          /\ returned.kind = "analysis" =>
               /\ returned.propertyId = propertyId
               /\ \A k \in DOMAIN avmRows :
                    k[1] = propertyId =>
                      \E e \in returned.avmEstimates :
                        /\ e.provider = k[2]
                        /\ ValuesOf(e) = ValuesOf(avmRows[k])
               /\ \A e \in returned.avmEstimates :
                    <<propertyId, e.provider>> \in DOMAIN avmRows
               /\ Statistics(returned) =
                    Statistics(calculateAnalysisMetrics(returned.avmEstimates))
               /\ StatisticsMatch(returned,
                    {e \in returned.avmEstimates : 0 < e.estimate /\ e.estimate < 50000000})
               /\ DOMAIN returned.scrapingResults = {})
  /\ [][(returned'.kind # "nothing" /\
         (returned' # returned \/ propertyId' # propertyId \/ readFailed' # readFailed)) =>
          /\ UNCHANGED <<properties, avmRows, dbWrites, lastSaved, now>>
          /\ UNCHANGED <<calls, status, scrapingResults, pc>>]_vars

\* An analysis has been returned for a property with two stored estimates,
\* while the other stored property has an estimate of its own.
C19_Witness ==
  /\ Asked
  /\ returned.kind = "analysis"
  /\ Cardinality(returned.avmEstimates) = 2
  /\ returned.confidence.overall > 0
  /\ \E k \in DOMAIN avmRows : k[1] # propertyId

\* Null has been returned for the unknown property after a successful read
\* of a storage that holds estimates.
C19_WitnessUnknown ==
  /\ Asked
  /\ returned = NullReturned
  /\ propertyId = UnknownProperty /\ ~readFailed
  /\ DOMAIN avmRows # {}

(***************************************************************************)
(* A run of analyzeProperty whose request differs from Request in letter   *)
(* case only.                                                              *)
(***************************************************************************)
\* Request with its address, city and state in upper case, and in lower case.
UpperRequest ==
  <<toUpperCase(Request[1]), toUpperCase(Request[2]), toUpperCase(Request[3]), Request[4]>>
LowerRequest ==
  <<toLowerCase(Request[1]), toLowerCase(Request[2]), toLowerCase(Request[3]), Request[4]>>

\* Requests for the address of Request; a ZIP code has digits only.
RequestVariants == {Request, UpperRequest, LowerRequest}

InitHash ==
  /\ request \in RequestVariants
  /\ RunIdle
  /\ OutIdle
  /\ RunStorage
  /\ LibIdle

SpecHash == InitHash /\ [][Next]_vars

C21_WitnessOtherProvider ==
  /\ request = LowerRequest /\ request # Request
  /\ pc = "returned"
  /\ returned.propertyId = PropertyHashOf(Request)
  /\ ~scrapingResults["zillow"].success
  /\ scrapingResults["redfin"].success /\ calls["redfin"] = RETRY_ATTEMPTS

(***************************************************************************)
(* Properties of the progress of a run of analyzeProperty.                 *)
(***************************************************************************)
\* The providers whose task has started and has not recorded its outcome:
\* their scrapeAVM call is pending or they wait out a backoff delay.
Busy == {p \in Names : status[p] \in {"calling", "delaying"}}

\* The number of scrapeAVM calls made so far.
TotalCalls == SumOver(Names, calls)

\* C22: while the scrapeAVM call of some provider is pending, analyzeProperty
\* has neither returned nor thrown, and nothing but the completion of that
\* call ends the wait: no timeout, no cancellation.
C22_HungCallBlocksRun ==
  /\ []((\E p \in Names : status[p] = "calling") =>
          /\ pc = "awaiting"
          /\ thrown = NoError
          /\ returned = NothingReturned)
  /\ [][\A p \in Names :
          (status[p] = "calling" /\ status'[p] # "calling") =>
            okCalls'[p] + failedCalls'[p] = okCalls[p] + failedCalls[p] + 1]_vars

\* The call of one provider is pending while the four other providers have
\* reached a terminal outcome and nothing else is left to run.
C22_Witness ==
  /\ pc = "awaiting"
  /\ \E p \in Names :
        /\ status[p] = "calling"
        /\ \A q \in Names \ {p} : status[q] = "released" /\ q \in DOMAIN scrapingResults
  /\ Quiescent
  /\ queue = <<>>

\* The attempt metadata of an outcome: ScrapingResult has the fields
\* success, data, error and duration, and none for the attempts.
ExposedAttempts(r) == IF "attempts" \in DOMAIN r THEN r.attempts ELSE <<>>

\* C23: the outcome recorded for a provider exposes every attempt that was
\* made for it, and so their number.
C23_EveryAttemptExposed ==
  \A p \in DOMAIN scrapingResults :
    Len(ExposedAttempts(scrapingResults[p])) = calls[p]

\* The run with fairness: every pending scrapeAVM call returns or throws,
\* every timer fires, every continuation and the read of the storage run.
SpecLive == Spec /\ WF_vars(Next)

\* C24: when every scrapeAVM call returns or throws, every provider task
\* records its outcome and analyzeProperty returns or throws NoSourceError,
\* after at most Len(SCRAPERS) * RETRY_ATTEMPTS calls.
C24_RunTerminates ==
  /\ <>(pc \in {"returned", "thrown"} /\ DOMAIN scrapingResults = Names)
  /\ [](pc = "thrown" => thrown = NoSourceError)
  /\ [](TotalCalls <= Len(SCRAPERS) * RETRY_ATTEMPTS)

\* The run has returned after every provider used all its attempts.
C24_Witness ==
  /\ pc = "returned"
  /\ TotalCalls = Len(SCRAPERS) * RETRY_ATTEMPTS

\* C25: at most CONCURRENT_SCRAPERS providers have started and not yet
\* recorded an outcome, each of them holding a slot of the limiter, backoff
\* waits included; a provider's first scrapeAVM call is made only while
\* fewer than CONCURRENT_SCRAPERS others are in that condition, and a slot
\* is given back only by a task that has recorded its outcome.
C25_SlotHeldUntilRecorded ==
  /\ [](/\ Cardinality(Busy) <= CONCURRENT_SCRAPERS
        /\ Cardinality(Busy) <= activeCount
        /\ \A p \in Busy : p \notin DOMAIN scrapingResults)
  /\ [][\A q \in Names :
          (calls[q] = 0 /\ calls'[q] = 1) => Cardinality(Busy) < CONCURRENT_SCRAPERS]_vars
  /\ [][activeCount' < activeCount =>
          \E p \in Names : status[p] = "settled" /\ status'[p] = "released"]_vars

\* Two providers hold the slots, one of them in a backoff wait, while the
\* three others are still queued and have not been called.
C25_Witness ==
  /\ Cardinality(Busy) = CONCURRENT_SCRAPERS
  /\ \E p \in Busy : status[p] = "delaying"
  /\ Len(queue) = 3
  /\ \A i \in 1..Len(queue) : calls[queue[i]] = 0

(***************************************************************************)
(* ScrapingUtils.enforceRateLimit (V2_IMPLEMENTATION_SUMMARY.md lines      *)
(* 588-609) under concurrent calls.                                        *)
(***************************************************************************)
RATE_LIMIT_WINDOW == 60000
MAX_REQUESTS_PER_WINDOW == 10

\* The largest number of enforceRateLimit calls, and the last instant.
MaxRateCalls == 22
MaxRateTime == 120000

\* The clock advances by half a window.
ClockStep == RATE_LIMIT_WINDOW \div 2

\* The providers enforceRateLimit is called for.
RateProviders == {"zillow"}

\* Math.floor(now / RATE_LIMIT_WINDOW) * RATE_LIMIT_WINDOW, line 598.
WindowStart(t) == (t \div RATE_LIMIT_WINDOW) * RATE_LIMIT_WINDOW

\* this.rateLimitMap.get(key) || 0, line 601.
RequestCount(map, key) == IF key \in DOMAIN map THEN map[key] ELSE 0

\* Map.prototype.set and the same for a history counter.
MapSet(map, key, value) ==
  [k \in DOMAIN map \cup {key} |-> IF k = key THEN value ELSE map[k]]

\* A bag with one more, and with one less, copy of x.
BagPlus(bag, x) == MapSet(bag, x, RequestCount(bag, x) + 1)
BagMinus(bag, x) ==
  [k \in {j \in DOMAIN bag : j # x \/ bag[j] > 1} |-> IF k = x THEN bag[k] - 1 ELSE bag[k]]

\* The number of calls made so far: let through or suspended.
RateCalls ==
  SumOver(DOMAIN rlPassed, rlPassed) + SumOver(DOMAIN rlWaiting, rlWaiting)

InitRate ==
  /\ RunIdle
  /\ OutIdle
  /\ NoStorage
  /\ LibIdle
  /\ request = Request

\* enforceRateLimit(provider) up to its return or its await (lines 596-609):
\* below the limit the count is written and the call returns in the same
\* turn; at the limit the call suspends in delay(waitTime), keeping its key
\* and its requestCount.
EnforceRateLimit(provider) ==
  /\ RateCalls < MaxRateCalls
  /\ LET windowStart == WindowStart(rlNow)
         key == <<provider, windowStart>>
         requestCount == RequestCount(rateLimitMap, key)
     IN IF requestCount >= MAX_REQUESTS_PER_WINDOW
          THEN LET waitTime == windowStart + RATE_LIMIT_WINDOW - rlNow IN
               /\ rlWaiting' = BagPlus(rlWaiting,
                                 [key |-> key, requestCount |-> requestCount,
                                  wakeAt |-> rlNow + waitTime])
               /\ UNCHANGED <<rateLimitMap, rlPassed>>
          ELSE /\ rateLimitMap' = MapSet(rateLimitMap, key, requestCount + 1)
               /\ rlPassed' = BagPlus(rlPassed, key)
               /\ UNCHANGED rlWaiting
  /\ UNCHANGED rlNow
  /\ UNCHANGED <<runVars, dbVars, outVars, request, fetchVars, proxyVars, investVars>>

\* The delay of a suspended call is over: line 608 writes requestCount + 1
\* under the key computed before the wait, and the call returns.
RateLimitWakes(w) ==
  /\ w \in DOMAIN rlWaiting
  /\ w.wakeAt <= rlNow
  /\ rateLimitMap' = MapSet(rateLimitMap, w.key, w.requestCount + 1)
  /\ rlPassed' = BagPlus(rlPassed, <<w.key[1], WindowStart(rlNow)>>)
  /\ rlWaiting' = BagMinus(rlWaiting, w)
  /\ UNCHANGED rlNow
  /\ UNCHANGED <<runVars, dbVars, outVars, request, fetchVars, proxyVars, investVars>>

\* Time passes; a timer that is due fires before more time passes.
RateClockTicks ==
  /\ rlNow < MaxRateTime
  /\ \A w \in DOMAIN rlWaiting : w.wakeAt > rlNow
  /\ rlNow' = rlNow + ClockStep
  /\ UNCHANGED <<rateLimitMap, rlWaiting, rlPassed>>
  /\ UNCHANGED <<runVars, dbVars, outVars, request, fetchVars, proxyVars, investVars>>

NextRate ==
  \/ \E provider \in RateProviders : EnforceRateLimit(provider)
  \/ \E w \in DOMAIN rlWaiting : RateLimitWakes(w)
  \/ RateClockTicks

SpecRate == InitRate /\ [][NextRate]_vars

\* C26: at most MAX_REQUESTS_PER_WINDOW calls of a provider are let through
\* within one window, and every call is counted in the window in which it
\* is let through, a call that had to wait in the window after its arrival.
C26_WindowLimit ==
  \A k \in DOMAIN rlPassed :
    /\ rlPassed[k] <= MAX_REQUESTS_PER_WINDOW
    /\ RequestCount(rateLimitMap, k) = rlPassed[k]

(***************************************************************************)
(* ScrapingUtils.fetchWithRetry (V2_IMPLEMENTATION_SUMMARY.md lines        *)
(* 690-734).                                                               *)
(***************************************************************************)
\* maxRetries: number = 3, line 693.
DEFAULT_MAX_RETRIES == 3

\* The smallest length of an accepted body, line 716.
MIN_HTML_LENGTH == 100

\* The factor and the cap of the delay, line 726.
FETCH_BASE_DELAY == 1000
FETCH_MAX_DELAY == 10000

\* The largest maxRetries a call is made with.
MaxFetchRetries == 5

\* What a request can give: response.data of some length (0 for an empty or
\* missing body), or an error thrown by the request.
FetchResponses ==
  { [kind |-> "body", length |-> 0], [kind |-> "body", length |-> 99],
    [kind |-> "body", length |-> 100], [kind |-> "body", length |-> 5000],
    [kind |-> "error", length |-> 0] }

RECURSIVE Pow2(_)
\* Math.pow(2, n)
Pow2(n) == IF n = 0 THEN 1 ELSE 2 * Pow2(n - 1)

\* A delay without the cap.
FetchDelayUncapped(attempt) == FETCH_BASE_DELAY * Pow2(attempt)

\* Math.min(1000 * Math.pow(2, attempt), 10000), line 726.
FetchDelay(attempt) ==
  IF FETCH_BASE_DELAY * Pow2(attempt) < FETCH_MAX_DELAY
    THEN FETCH_BASE_DELAY * Pow2(attempt)
    ELSE FETCH_MAX_DELAY

\* Lines 717-720: the body is returned unless it is missing, empty or
\* shorter than 100 characters.
Accepted(resp) == resp.kind = "body" /\ ~(resp.length = 0 \/ resp.length < MIN_HTML_LENGTH)

\* The log entries of fetchWithRetry.
RequestEntry(attempt, resp) == [event |-> "request", attempt |-> attempt, response |-> resp, ms |-> 0]
WaitEntry(attempt, ms) == [event |-> "wait", attempt |-> attempt, response |-> [kind |-> "none", length |-> 0], ms |-> ms]

InitFetch ==
  /\ RunIdle
  /\ OutIdle
  /\ NoStorage
  /\ RateIdle
  /\ ProxyIdle
  /\ InvestIdle
  /\ request = Request
  /\ fwMaxRetries \in {DEFAULT_MAX_RETRIES} \cup (0..MaxFetchRetries)
  /\ fwAttempt = 0
  /\ fwPc = "idle"
  /\ fwLog = << >>

\* fetchWithRetry is called: attempt = 1 and the loop condition of line 697;
\* the first request is issued, or the error of line 733 is thrown.
FetchStarts ==
  /\ fwPc = "idle"
  /\ fwAttempt' = 1
  /\ fwPc' = IF 1 <= fwMaxRetries THEN "requesting" ELSE "thrown"
  /\ UNCHANGED <<fwMaxRetries, fwLog>>
  /\ UNCHANGED <<runVars, dbVars, outVars, request, rateVars, proxyVars, investVars>>

\* The request of line 701 completes with resp: an accepted body is
\* returned; otherwise the catch block waits if attempt < maxRetries, and
\* the loop ends and line 733 throws if not.
FetchResponds(resp) ==
  /\ fwPc = "requesting"
  /\ resp \in FetchResponses
  /\ IF Accepted(resp)
       THEN /\ fwPc' = "returned"
            /\ fwLog' = Append(fwLog, RequestEntry(fwAttempt, resp))
            /\ UNCHANGED fwAttempt
       ELSE IF fwAttempt < fwMaxRetries
              THEN /\ fwPc' = "waiting"
                   /\ fwLog' = fwLog \o <<RequestEntry(fwAttempt, resp),
                                          WaitEntry(fwAttempt, FetchDelay(fwAttempt))>>
                   /\ UNCHANGED fwAttempt
              ELSE /\ fwPc' = "thrown"
                   /\ fwAttempt' = fwAttempt + 1
                   /\ fwLog' = Append(fwLog, RequestEntry(fwAttempt, resp))
  /\ UNCHANGED fwMaxRetries
  /\ UNCHANGED <<runVars, dbVars, outVars, request, rateVars, proxyVars, investVars>>

\* The delay of line 728 is over: attempt++ and the next request is issued.
FetchDelayElapses ==
  /\ fwPc = "waiting"
  /\ fwAttempt' = fwAttempt + 1
  /\ fwPc' = "requesting"
  /\ UNCHANGED <<fwMaxRetries, fwLog>>
  /\ UNCHANGED <<runVars, dbVars, outVars, request, rateVars, proxyVars, investVars>>

NextFetch ==
  \/ FetchStarts
  \/ \E resp \in FetchResponses : FetchResponds(resp)
  \/ FetchDelayElapses

SpecFetch == InitFetch /\ [][NextFetch]_vars

\* The positions of the requests in the log.
RequestsAt == {i \in 1..Len(fwLog) : fwLog[i].event = "request"}

\* The request at position i of the log got a body of at least 100
\* characters.
GoodAt(i) == fwLog[i].response.kind = "body" /\ fwLog[i].response.length >= 100

\* C27: at most maxRetries requests are made, numbered from 1; a request
\* that gets a body of at least 100 characters is the last one and its body
\* is returned; a failed request k < maxRetries is followed by a wait of
\* min(1000 * 2^k, 10000) ms; the failed request maxRetries is followed by
\* no wait, and the call throws.
C27_FetchWithRetry ==
  /\ Cardinality(RequestsAt) <= fwMaxRetries
  /\ \A i \in RequestsAt :
       /\ fwLog[i].attempt = Cardinality({j \in RequestsAt : j <= i})
       /\ GoodAt(i) => (i = Len(fwLog) /\ fwPc = "returned")
       /\ (~GoodAt(i) /\ fwLog[i].attempt < fwMaxRetries) =>
            /\ i < Len(fwLog)
            /\ fwLog[i + 1].event = "wait"
            /\ \E k \in 1..fwMaxRetries :
                 /\ k = fwLog[i].attempt
                 /\ fwLog[i + 1].ms =
                      (IF k = 1 THEN 2000 ELSE IF k = 2 THEN 4000
                       ELSE IF k = 3 THEN 8000 ELSE 10000)
       /\ (~GoodAt(i) /\ fwLog[i].attempt >= fwMaxRetries) =>
            (i = Len(fwLog) /\ fwPc = "thrown")
  /\ \A i \in 1..Len(fwLog) :
       fwLog[i].event = "wait" => (i > 1 /\ (i - 1) \in RequestsAt /\ ~GoodAt(i - 1))
  /\ fwPc = "returned" => (fwLog # << >> /\ GoodAt(Len(fwLog)))
  /\ fwPc = "thrown" =>
       /\ Cardinality(RequestsAt) = fwMaxRetries
       /\ \A i \in RequestsAt : ~GoodAt(i)

\* A call with maxRetries 5 has thrown after five failed requests and the
\* waits 2000, 4000, 8000 and 10000.
C27_Witness ==
  /\ fwPc = "thrown"
  /\ fwMaxRetries = 5
  /\ Cardinality(RequestsAt) = 5
  /\ Len(fwLog) = 9
  /\ fwLog[8].ms = 10000

\* A call with the default maxRetries has returned the body of its third
\* request, after a body of 99 characters and an error.
C27_WitnessReturned ==
  /\ fwPc = "returned"
  /\ fwMaxRetries = DEFAULT_MAX_RETRIES
  /\ Cardinality(RequestsAt) = 3
  /\ fwLog[1].response = [kind |-> "body", length |-> 99]
  /\ fwLog[3].response.kind = "error"
  /\ fwLog[5].response.length = 100

(***************************************************************************)
(* ScrapingUtils.savePropertyData (V2_IMPLEMENTATION_SUMMARY.md lines      *)
(* 760-791), called on its own: SpecProps.                                 *)
(***************************************************************************)

\* Calls of savePropertyData in a behaviour.
MaxPropertySaves == 3

\* Two addresses whose address and city differ and whose joined strings
\* address_city_state_zipCode are the same.
JoinedRequest ==
  << <<"1", " ", "E", "l", "m", "_", "s", "t">>, <<"a", "u", "s", "t", "i", "n">>,
     <<"t", "x">>, <<"7", "8", "7", "0", "1">> >>
JoinedOtherRequest ==
  << <<"1", " ", "E", "l", "m">>, <<"s", "t", "_", "a", "u", "s", "t", "i", "n">>,
     <<"t", "x">>, <<"7", "8", "7", "0", "1">> >>

\* The PropertyData savePropertyData is called with.
PropertyInputs ==
  {Request, UpperRequest, LowerRequest, OtherRequest, JoinedRequest, JoinedOtherRequest}

\* The error of prisma.property.upsert when `create` meets a stored row
\* with the same id.
UniqueConstraintError == <<"Unique constraint failed on the fields: (id)">>

\* The stored properties that the `where` of lines 763-770 selects: the
\* four fields are compared as they are given.
MatchingRows(props, data) ==
  {r \in props : /\ r.address = data[1]
                 /\ r.city = data[2]
                 /\ r.state = data[3]
                 /\ r.zipCode = data[4]}

\* prisma.property.upsert of lines 762-784 on the stored properties props at
\* time t: a row selected by `where` gets the update of lines 771-774 and
\* its id is returned; with no such row, `create` (lines 775-783) inserts a
\* row whose id is generatePropertyHash of the fields, which the storage
\* refuses when a row has that id already.
savePropertyData(props, data, t) ==
  LET match == MatchingRows(props, data)
      id == generatePropertyHash(data[1], data[2], data[3], data[4])
  IN  IF match # {}
        THEN [threw |-> NoError,
              id |-> (CHOOSE r \in match : TRUE).id,
              rows |-> (props \ match) \cup {[r EXCEPT !.lastUpdated = t] : r \in match}]
        ELSE IF id \in IdsOf(props)
          THEN [threw |-> UniqueConstraintError, id |-> NoError, rows |-> props]
          ELSE [threw |-> NoError, id |-> id,
                rows |-> props \cup {[PropertyRow(data) EXCEPT !.lastUpdated = Null]}]

InitProps ==
  /\ RunIdle
  /\ OutIdle
  /\ NoStorage
  /\ LibIdle
  /\ request = Request

\* ScrapingUtils.savePropertyData(propertyData): the id of the upsert is
\* returned (line 786); an error of the storage is logged and rethrown
\* (lines 787-790).  ok is whether the storage can be reached.
SavePropertyData(data, ok) ==
  /\ pc = "start"
  /\ dbWrites < MaxPropertySaves
  /\ dbWrites' = dbWrites + 1
  /\ now' = now + 1
  /\ request' = data
  /\ LET saved == savePropertyData(properties, data, now)
     IN  IF ~ok
           THEN /\ thrown' = <<"database error">>
                /\ returned' = NothingReturned
                /\ UNCHANGED properties
           ELSE /\ thrown' = saved.threw
                /\ returned' = IF saved.threw = NoError
                                 THEN [kind |-> "id", id |-> saved.id]
                                 ELSE NothingReturned
                /\ properties' = saved.rows
  /\ UNCHANGED <<pc, queue, activeCount, pendingChecks, status, attempts, result,
                 delayMs, scrapingResults, propertyId, dbReads, metricsRuns,
                 calls, failedCalls, okCalls, lastFault, writes, startOrder>>
  /\ UNCHANGED <<avmRows, lastSaved>>
  /\ UNCHANGED <<avmEstimates, analysis, readFailed>>
  /\ UNCHANGED <<rateVars, fetchVars, proxyVars, investVars>>

NextProps == \E data \in PropertyInputs, ok \in BOOLEAN : SavePropertyData(data, ok)

SpecProps == InitProps /\ [][NextProps]_vars

\* C28: savePropertyData returns generatePropertyHash of its input, stores
\* at most one property per id, and a call never fails because of a
\* property stored before, whatever the letter case of the stored address.
C28_SaveIsIdempotent ==
  /\ thrown # UniqueConstraintError
  /\ returned.kind = "id" => returned.id = PropertyHashOf(request)
  /\ \A r1, r2 \in properties : r1.id = r2.id => r1 = r2

(***************************************************************************)
(* ProxyManager (proxy-config.ts): the rotation of the proxy's US state,   *)
(* SpecProxy.  The constructors called at lines 134-209 are taken to       *)
(* succeed.                                                                *)
(***************************************************************************)

\* rotateState and refreshProxy calls in a behaviour.
MaxProxyCalls == 16

\* US_STATES (lines 36-40).
US_STATES ==
  <<"ny", "ca", "tx", "fl", "il", "oh", "pa", "mi", "ga", "nc",
    "nj", "va", "wa", "az", "ma", "tn", "in", "mo", "md", "wi",
    "co", "mn", "sc", "al", "la", "ky", "or", "ok", "ct", "ut">>

\* US_STATES[index % US_STATES.length] (lines 124, 315), index from 0.
StateAt(index) == US_STATES[(index % Len(US_STATES)) + 1]

\* ProxyManager.initializeProxy (lines 121-216) at currentStateIndex index:
\* the proxy is built for the state at the index, and the index is
\* incremented (lines 124-134).
initializeProxy(index) == [state |-> StateAt(index), index |-> index + 1]

\* The ProxyManager after its constructor (lines 46-52), which
\* getInstance runs when the module is loaded (line 320).
InitProxy ==
  /\ RunIdle
  /\ OutIdle
  /\ NoStorage
  /\ RateIdle
  /\ FetchIdle
  /\ InvestIdle
  /\ request = Request
  /\ currentStateIndex = initializeProxy(0).index
  /\ proxyState = initializeProxy(0).state
  /\ loggedState = "none"
  /\ proxyHistory = << [op |-> "construct", state |-> initializeProxy(0).state,
                        reported |-> "none"] >>

\* ProxyManager.rotateState (lines 312-316): the index is incremented,
\* initializeProxy builds the proxy and increments it again, and the state
\* at the resulting index is logged.
RotateState ==
  /\ Len(proxyHistory) <= MaxProxyCalls
  /\ LET init == initializeProxy(currentStateIndex + 1)
     IN  /\ currentStateIndex' = init.index
         /\ proxyState' = init.state
         /\ loggedState' = StateAt(init.index)
         /\ proxyHistory' = Append(proxyHistory,
                                   [op |-> "rotate", state |-> init.state,
                                    reported |-> StateAt(init.index)])
  /\ UNCHANGED <<runVars, dbVars, outVars, request, rateVars, fetchVars, investVars>>

\* ProxyManager.refreshProxy (lines 282-285).
RefreshProxy ==
  /\ Len(proxyHistory) <= MaxProxyCalls
  /\ LET init == initializeProxy(currentStateIndex)
     IN  /\ currentStateIndex' = init.index
         /\ proxyState' = init.state
         /\ proxyHistory' = Append(proxyHistory,
                                   [op |-> "refresh", state |-> init.state,
                                    reported |-> "none"])
  /\ UNCHANGED loggedState
  /\ UNCHANGED <<runVars, dbVars, outVars, request, rateVars, fetchVars, investVars>>

NextProxy == RotateState \/ RefreshProxy

SpecProxy == InitProxy /\ [][NextProxy]_vars

\* The state that follows s in US_STATES, cyclically.
FollowingState(s) ==
  LET i == CHOOSE j \in 1..Len(US_STATES) : US_STATES[j] = s
  IN  US_STATES[(i % Len(US_STATES)) + 1]

\* C29: every rotateState call switches the proxy to the state that follows,
\* cyclically in US_STATES, the state in use before the call, and reports
\* the state it switched to.
C29_RotateToFollowingState ==
  \A i \in 2..Len(proxyHistory) :
    proxyHistory[i].op = "rotate" =>
      /\ proxyHistory[i].state = FollowingState(proxyHistory[i - 1].state)
      /\ proxyHistory[i].reported = proxyHistory[i].state

(***************************************************************************)
(* InvestmentAnalyzer (investment-analyzer.ts): the risk score, the        *)
(* investment score and the recommendation of analyzeInvestment,           *)
(* SpecInvest.  A number is a record: NaN, or a value; the debt service    *)
(* coverage ratio is in tenths.                                            *)
(***************************************************************************)

\* The number NaN, which every comparison finds false, and the number v.
NaN == [nan |-> TRUE, v |-> 0]
Num(v) == [nan |-> FALSE, v |-> v]

\* a < c, a > c and a >= c of JavaScript for a number a and a value c.
Lt(a, c) == ~a.nan /\ a.v < c
Gt(a, c) == ~a.nan /\ a.v > c
Geq(a, c) == ~a.nan /\ a.v >= c

\* The metrics of lines 98-107 and the fields of PropertyInvestmentData that
\* assessRisk and calculateInvestmentScore read.
InvestInputs ==
  [capRate : {NaN} \cup {Num(v) : v \in {3, 4, 6, 8, 12, 13}},
   cashOnCashReturn : {NaN} \cup {Num(v) : v \in {-1, 0, 8, 12}},
   monthlyCashFlow : {NaN} \cup {Num(v) : v \in {-1, 0, 99, 100, 200, 500}},
   debtServiceCoverageRatio : {NaN} \cup {Num(v) : v \in {11, 12, 15}},
   appreciationRate : {NaN} \cup {Num(v) : v \in {8, 9}},
   vacancyPercent : {NaN} \cup {Num(v) : v \in {15, 16}},
   downPaymentPercent : {NaN} \cup {Num(v) : v \in {19, 20}}]

\* The riskScore before line 282.
RawRiskScore(data) ==
    (IF Lt(data.capRate, 4) THEN 20 ELSE IF Gt(data.capRate, 12) THEN 15 ELSE 0)
  + (IF Lt(data.monthlyCashFlow, 0) THEN 30
     ELSE IF Lt(data.monthlyCashFlow, 100) THEN 15 ELSE 0)
  + (IF Lt(data.debtServiceCoverageRatio, 12) THEN 25 ELSE 0)
  + (IF Gt(data.appreciationRate, 8) THEN 10 ELSE 0)
  + (IF Gt(data.vacancyPercent, 15) THEN 15 ELSE 0)
  + (IF Lt(data.downPaymentPercent, 20) THEN 10 ELSE 0)

\* InvestmentAnalyzer.assessRisk (lines 236-283), its riskScore:
\* Math.min(riskScore, 100).
assessRisk(data) == IF RawRiskScore(data) < 100 THEN RawRiskScore(data) ELSE 100

\* The score of lines 289-308, before the risk adjustment.
RawScore(metrics) ==
    100
  + (IF Geq(metrics.capRate, 8) THEN 20
     ELSE IF Geq(metrics.capRate, 6) THEN 10
     ELSE IF Lt(metrics.capRate, 4) THEN -20 ELSE 0)
  + (IF Geq(metrics.cashOnCashReturn, 12) THEN 15
     ELSE IF Geq(metrics.cashOnCashReturn, 8) THEN 10
     ELSE IF Lt(metrics.cashOnCashReturn, 0) THEN -30 ELSE 0)
  + (IF Geq(metrics.monthlyCashFlow, 500) THEN 15
     ELSE IF Geq(metrics.monthlyCashFlow, 200) THEN 10
     ELSE IF Lt(metrics.monthlyCashFlow, 0) THEN -25 ELSE 0)
  + (IF Geq(metrics.debtServiceCoverageRatio, 15) THEN 10
     ELSE IF Lt(metrics.debtServiceCoverageRatio, 12) THEN -20 ELSE 0)

\* Math.round(score - riskScore * 0.5) (lines 311-313): the nearest
\* integer, halves rounded up.
RoundedScore(metrics, riskScore) == (2 * RawScore(metrics) - riskScore + 1) \div 2

\* A calculateInvestmentScore that returns the rounded score as it is.
calculateInvestmentScoreUnclamped(metrics, riskScore) == RoundedScore(metrics, riskScore)

\* InvestmentAnalyzer.calculateInvestmentScore (lines 288-314):
\* Math.max(0, Math.min(100, Math.round(score))).
calculateInvestmentScore(metrics, riskScore) ==
  LET rounded == RoundedScore(metrics, riskScore)
  IN  IF rounded > 100 THEN 100 ELSE IF rounded < 0 THEN 0 ELSE rounded

\* InvestmentAnalyzer.getRecommendation (lines 319-324).
getRecommendation(score) ==
  IF score >= 80 THEN "Strong Buy"
  ELSE IF score >= 65 THEN "Buy"
  ELSE IF score >= 45 THEN "Hold"
  ELSE "Avoid"

InitInvest ==
  /\ RunIdle
  /\ OutIdle
  /\ NoStorage
  /\ RateIdle
  /\ FetchIdle
  /\ ProxyIdle
  /\ request = Request
  /\ investInput \in InvestInputs
  /\ investOutput = [done |-> FALSE]

\* InvestmentAnalyzer.analyzeInvestment (lines 68-156), from the metrics
\* to the riskScore, investmentScore and recommendation of the result
\* (lines 113-130, 143-146).
AnalyzeInvestment ==
  /\ ~investOutput.done
  /\ LET riskScore == assessRisk(investInput)
         investmentScore == calculateInvestmentScore(investInput, riskScore)
     IN  investOutput' = [done |-> TRUE,
                          riskScore |-> riskScore,
                          investmentScore |-> investmentScore,
                          recommendation |-> getRecommendation(investmentScore)]
  /\ UNCHANGED investInput
  /\ UNCHANGED <<runVars, dbVars, outVars, request, rateVars, fetchVars, proxyVars>>

NextInvest == AnalyzeInvestment

SpecInvest == InitInvest /\ [][NextInvest]_vars

\* C30: the riskScore of a result is within 0..100, its investmentScore is
\* an integer within 0..100, and its recommendation is Strong Buy exactly
\* for a score of 80 or more, Buy for 65..79, Hold for 45..64 and Avoid
\* below 45.
C30_ScoresAndRecommendation ==
  investOutput.done =>
    /\ investOutput.riskScore \in 0..100
    /\ investOutput.investmentScore \in 0..100
    /\ investOutput.recommendation = "Strong Buy" <=> investOutput.investmentScore >= 80
    /\ investOutput.recommendation = "Buy" <=> investOutput.investmentScore \in 65..79
    /\ investOutput.recommendation = "Hold" <=> investOutput.investmentScore \in 45..64
    /\ investOutput.recommendation = "Avoid" <=> investOutput.investmentScore < 45

\* Every risk applies and every metric is poor: the sum of the risks, 110,
\* is reported as 100, and the score, -45, as 0.
C30_Witness ==
  /\ investOutput.done
  /\ RawRiskScore(investInput) > 100
  /\ investOutput.riskScore = 100
  /\ RoundedScore(investInput, investOutput.riskScore) < 0
  /\ investOutput.investmentScore = 0
  /\ investOutput.recommendation = "Avoid"

\* Every metric is good and one risk applies: the score, 153, is reported
\* as 100, after a half was rounded up.
C30_WitnessStrongBuy ==
  /\ investOutput.done
  /\ investOutput.riskScore = 15
  /\ RoundedScore(investInput, investOutput.riskScore) = 153
  /\ investOutput.investmentScore = 100
  /\ investOutput.recommendation = "Strong Buy"

\* A metric is NaN: no comparison with it applies.
C30_WitnessNaN ==
  /\ investOutput.done
  /\ investInput.capRate = NaN
  /\ investInput.monthlyCashFlow = NaN
  /\ investOutput.investmentScore \in 65..79
  /\ investOutput.recommendation = "Buy"

====
